---- MODULE Spec2Model ----
(***************************************************************************)
(* State machine of the NonFungibleToken marketplace contract              *)
(* (ext-near-nft-apps/contract/src/lib.rs).                                *)
(*                                                                         *)
(* Every public method is one action.  A method that panics reverts all    *)
(* its writes (the host discards the state of a failed call), so a         *)
(* rejected call is no step: each handler is an operator from the state    *)
(* record and the call's inputs to a result [ok, s, promises], and the     *)
(* action commits r.s only when r.ok.                                      *)
(*                                                                         *)
(* Amounts are counted in units of 10^18 yoctoNEAR so that the fees set by *)
(* the constructor fit TLC's integers; the arithmetic on them is the       *)
(* contract's integer arithmetic.  Block timestamps (the date fields) and  *)
(* the event log are not modelled.                                         *)
(***************************************************************************)
EXTENDS Integers, Sequences, FiniteSets, TLC

VARIABLES
    contract,   \* the NonFungibleToken struct and the collections it owns
    promises    \* the transfers dispatched by the last call (Promise::transfer)

vars == <<contract, promises>>

(***************************************************************************)
(* Bounds of the model.                                                    *)
(***************************************************************************)
\* tokens minted in one behaviour
MaxTokens == 2
\* editions of one minted token (0 is a legal edition count)
MaxEditionsPerMint == 2
\* editions minted in one behaviour
MaxTotalEditions == 2
\* bids stored over all (token, edition) keys in one behaviour
MaxBids == 1
\* largest edition number passed to a call (one past the editions of a token)
MaxEditionArg == 2
\* escrow grants standing at one time, over all accounts
MaxEscrowGrants == 1
\* allowance grants standing at one time, over all editions
MaxAllowances == 1
\* the same in the allowance specification
MaxAllowancesWide == 2
\* largest amount attached to a buy in the settlement specification
MaxGross == 30
\* largest trade fee divisor tried in the settlement specification
MaxDivisor == 3
MaxSettleTokens == 1
MaxMintTokens == 3
MaxMintEditions == 4
MaxCollections == 2
MaxBidsWide == 2

(***************************************************************************)
(* Accounts.                                                               *)
(***************************************************************************)
OwnerAccount == "owner"
FeeReceiver == "treasury"
GenesisCreator == "nearfolio.near"
Users == {"alice", "bob", "carol"}
Accounts == Users \cup {OwnerAccount}

(***************************************************************************)
(* Program constants (fees in units of 10^18 yoctoNEAR).                   *)
(***************************************************************************)
MINT_STORAGE_FEE == 300000
EDITION_STORAGE_FEE == 35000
CREATE_COLLECTION_FEE == 2
TRADE_FEE == 13
MAX_EDITIONS_INIT == 25
MAX_NAME_LENGTH == 30
MAX_DESCRIPTION_LENGTH == 250
MAX_EXTERNAL_LINK == 100
MAX_TAGS == 3
IPFS_HASH_LENGTH == 46

AVAILABLE == "AVAILABLE"
LISTED == "LISTED"
LOCKED == "LOCKED"
BURNED == "BURNED"

(***************************************************************************)
(* LookupMap: a function whose domain is the set of stored keys.           *)
(***************************************************************************)
Has(m, k) == k \in DOMAIN m
Put(m, k, v) == [x \in (DOMAIN m) \cup {k} |-> IF x = k THEN v ELSE m[x]]
Del(m, k) == [x \in (DOMAIN m) \ {k} |-> m[x]]
EmptyMap == [x \in {} |-> 0]

(***************************************************************************)
(* Results of a handler.                                                   *)
(***************************************************************************)
Panic == [ok |-> FALSE]
Ok(s, proms) == [ok |-> TRUE, s |-> s, promises |-> proms]

\* NonFungibleToken::new
new(owner, receiver) ==
    [owner_id |-> owner, fee_receiver |-> receiver,
     current_supply |-> 0, total_editions |-> 0, total_collections |-> 0,
     minters |-> {}, metadata |-> EmptyMap, tokens |-> EmptyMap,
     collections |-> EmptyMap, editions |-> EmptyMap,
     edition_states |-> EmptyMap, marketplace |-> EmptyMap,
     account_gives_access |-> EmptyMap, edition_allowances |-> EmptyMap,
     set_index |-> EmptyMap, set_elements |-> EmptyMap,
     offers |-> EmptyMap,
     mint_storage_fee |-> MINT_STORAGE_FEE,
     edition_storage_fee |-> EDITION_STORAGE_FEE,
     create_collection_fee |-> CREATE_COLLECTION_FEE,
     trade_fee |-> TRADE_FEE, paused |-> TRUE,
     MAX_EDITIONS |-> MAX_EDITIONS_INIT]

Init ==
    /\ contract = new(OwnerAccount, FeeReceiver)
    /\ promises = <<>>

\* A call that does not panic replaces the state and dispatches its promises.
Commit(r) ==
    /\ r.ok
    /\ contract' = r.s
    /\ promises' = r.promises

(***************************************************************************)
(* near_sdk::collections::UnorderedSet<AccountId> as the contract uses it  *)
(* for edition allowances.  The value kept in the LookupMap is the struct  *)
(* [prefix, len]; the members live in contract storage under keys built    *)
(* from the prefix: set_index[<<prefix, account>>] is the position of the  *)
(* account (key prefix ++ "i" ++ account) and set_elements[<<prefix, i>>]  *)
(* is the i-th member (key prefix ++ "e" ++ i).  Two structs made with the *)
(* same prefix read and write the same storage keys.                       *)
(***************************************************************************)
\* UnorderedSet::new
set_new(id) == [prefix |-> id, len |-> 0]

\* UnorderedSet::contains: storage_has_key of the index lookup key
set_contains(s, set, account) == Has(s.set_index, <<set.prefix, account>>)

\* UnorderedSet::insert: Vector::push_raw after writing the index lookup
set_insert(s, set, account) ==
    IF Has(s.set_index, <<set.prefix, account>>)
    THEN [ok |-> TRUE, s |-> s, set |-> set]
    ELSE [ok |-> TRUE,
          s |-> [s EXCEPT
                   !.set_index = Put(@, <<set.prefix, account>>, set.len),
                   !.set_elements = Put(@, <<set.prefix, set.len>>, account)],
          set |-> [set EXCEPT !.len = @ + 1]]

\* Vector::pop_raw on the element vector of the set
vec_pop(s, set) ==
    IF set.len = 0 \/ ~Has(s.set_elements, <<set.prefix, set.len - 1>>)
    THEN [ok |-> FALSE]
    ELSE [ok |-> TRUE,
          value |-> s.set_elements[<<set.prefix, set.len - 1>>],
          s |-> [s EXCEPT
                   !.set_elements = Del(@, <<set.prefix, set.len - 1>>)],
          set |-> [set EXCEPT !.len = @ - 1]]

\* Vector::swap_remove_raw on the element vector of the set
vec_swap_remove(s, set, index) ==
    IF index >= set.len THEN [ok |-> FALSE]
    ELSE LET p == vec_pop(s, set) IN
         IF ~p.ok THEN [ok |-> FALSE]
         ELSE IF index + 1 = set.len THEN [ok |-> TRUE, s |-> p.s, set |-> p.set]
         ELSE IF ~Has(p.s.set_elements, <<set.prefix, index>>)
              THEN [ok |-> FALSE]
              ELSE [ok |-> TRUE,
                    s |-> [p.s EXCEPT
                             !.set_elements = Put(@, <<set.prefix, index>>, p.value)],
                    set |-> p.set]

\* UnorderedSet::remove
set_remove(s, set, account) ==
    IF ~Has(s.set_index, <<set.prefix, account>>)
    THEN [ok |-> TRUE, s |-> s, set |-> set]
    ELSE
      LET index_raw == s.set_index[<<set.prefix, account>>]
          removed == Del(s.set_index, <<set.prefix, account>>)
      IN
      IF set.len = 1
      THEN vec_swap_remove([s EXCEPT !.set_index = removed], set, index_raw)
      ELSE IF set.len = 0 \/ ~Has(s.set_elements, <<set.prefix, set.len - 1>>)
      THEN [ok |-> FALSE]
      ELSE
        LET last_element == s.set_elements[<<set.prefix, set.len - 1>>]
            relinked == IF last_element # account
                        THEN Put(removed, <<set.prefix, last_element>>, index_raw)
                        ELSE removed
        IN vec_swap_remove([s EXCEPT !.set_index = relinked], set, index_raw)

\* UnorderedSet::clear: walks the len stored elements (a missing one is an
\* inconsistent-state panic), removes their index lookups, Vector::clear
set_clear(s, set) ==
    LET positions == 0 .. (set.len - 1) IN
    IF \E i \in positions : ~Has(s.set_elements, <<set.prefix, i>>)
    THEN [ok |-> FALSE]
    ELSE
      LET members == {s.set_elements[<<set.prefix, i>>] : i \in positions} IN
      [ok |-> TRUE,
       s |-> [s EXCEPT
                !.set_index =
                    [k \in (DOMAIN @) \ {<<set.prefix, a>> : a \in members} |-> @[k]],
                !.set_elements =
                    [k \in (DOMAIN @) \ {<<set.prefix, i>> : i \in positions} |-> @[k]]],
       set |-> [set EXCEPT !.len = 0]]

\* fn prefix: format!("o{}", account_id)
prefix(account_id) == "o" \o account_id


(***************************************************************************)
(* Private helpers of the contract.                                        *)
(***************************************************************************)
\* Bids are made only while their number is below the bound (see offer).
BidCount(s) ==
    LET keys == DOMAIN s.offers
        RECURSIVE Sum(_)
        Sum(K) == IF K = {} THEN 0
                  ELSE LET k == CHOOSE x \in K : TRUE
                       IN Len(s.offers[k]) + Sum(K \ {k})
    IN Sum(keys)

is_paused(s) == s.paused

\* only_owner: the assertion holds
only_owner(s, pred) == pred = s.owner_id

\* only_whitelisted: the assertion holds
only_whitelisted(s, pred) == pred \in s.minters

\* only_token_owner: both unwraps succeed and the assertion holds
only_token_owner(s, pred, token_id, edition_id) ==
    /\ Has(s.tokens, token_id)
    /\ Has(s.editions, edition_id + s.tokens[token_id].edition_index)
    /\ s.editions[edition_id + s.tokens[token_id].edition_index].edition_owner = pred

\* _is_allowed: ok is FALSE when the unwrap of the allowance set panics
_is_allowed(s, idx, account) ==
    IF ~Has(s.edition_allowances, idx) THEN [ok |-> FALSE]
    ELSE [ok |-> TRUE,
          value |-> set_contains(s, s.edition_allowances[idx], account)]

\* _clear_allowance
_clear_allowance(s, edition_idx) ==
    IF ~Has(s.edition_allowances, edition_idx) THEN Panic
    ELSE LET c == set_clear(s, s.edition_allowances[edition_idx]) IN
         IF ~c.ok THEN Panic
         ELSE Ok([c.s EXCEPT !.edition_allowances = Put(@, edition_idx, c.set)],
                 <<>>)

\* An _internal_transfer without the pause assertion of line 725: buy and
\* accept_offer have no pause check of their own (C13).
_internal_transfer_without_pause_assert(s, from, to, token_id, edition_number, edition_idx) ==
    IF ~Has(s.editions, edition_idx) THEN Panic
    ELSE LET edition == s.editions[edition_idx] IN
    IF ~(edition.edition_owner = from /\ edition.edition_number = edition_number)
    THEN Panic
    ELSE IF ~Has(s.edition_states, edition_idx) THEN Panic
    ELSE LET state == s.edition_states[edition_idx] IN
    IF state = BURNED \/ state = LOCKED THEN Panic
    ELSE
      LET s1 == IF state = LISTED
                THEN [s EXCEPT !.marketplace = Del(@, edition_idx)]
                ELSE s
          s2 == [s1 EXCEPT
                   !.editions = Put(@, edition_idx,
                                    [edition EXCEPT !.edition_owner = to]),
                   !.edition_states = Put(@, edition_idx, AVAILABLE)]
      IN _clear_allowance(s2, edition_idx)

\* _internal_transfer
_internal_transfer(s, from, to, token_id, edition_number, edition_idx) ==
    IF ~Has(s.editions, edition_idx) THEN Panic
    ELSE LET edition == s.editions[edition_idx] IN
    IF is_paused(s) THEN Panic
    ELSE IF ~(edition.edition_owner = from /\ edition.edition_number = edition_number)
    THEN Panic
    ELSE IF ~Has(s.edition_states, edition_idx) THEN Panic
    ELSE LET state == s.edition_states[edition_idx] IN
    IF state = BURNED \/ state = LOCKED THEN Panic
    ELSE
      LET s1 == IF state = LISTED
                THEN [s EXCEPT !.marketplace = Del(@, edition_idx)]
                ELSE s
          s2 == [s1 EXCEPT
                   !.editions = Put(@, edition_idx,
                                    [edition EXCEPT !.edition_owner = to]),
                   !.edition_states = Put(@, edition_idx, AVAILABLE)]
      IN _clear_allowance(s2, edition_idx)

(***************************************************************************)
(* impl NEP4 for NonFungibleToken                                          *)
(***************************************************************************)
\* check_access
check_access(s, account_id, escrow_id) ==
    IF Has(s.account_gives_access, account_id)
    THEN escrow_id \in s.account_gives_access[account_id]
    ELSE FALSE

\* grant_access
grant_access(s, pred, escrow_account_id) ==
    LET acc == IF Has(s.account_gives_access, pred)
               THEN s.account_gives_access[pred] ELSE {}
    IN IF escrow_account_id \in acc THEN Panic
       ELSE Ok([s EXCEPT !.account_gives_access =
                             Put(@, pred, acc \cup {escrow_account_id})], <<>>)

\* revoke_access
revoke_access(s, pred, escrow_account_id) ==
    LET acc == IF Has(s.account_gives_access, pred)
               THEN s.account_gives_access[pred] ELSE {}
    IN Ok([s EXCEPT !.account_gives_access =
                        Put(@, pred, acc \ {escrow_account_id})], <<>>)

\* transfer_from
transfer_from(s, pred, from, to, token_id, edition_number) ==
    IF ~Has(s.tokens, token_id) THEN Panic
    ELSE LET index == s.tokens[token_id].edition_index + edition_number IN
    IF is_paused(s) THEN Panic
    ELSE IF ~check_access(s, from, pred) /\ ~_is_allowed(s, index, pred).ok
    THEN Panic
    ELSE IF ~(check_access(s, from, pred) \/ _is_allowed(s, index, pred).value)
    THEN Panic
    ELSE _internal_transfer(s, from, to, token_id, edition_number, index)

\* A transfer that leaves the marketplace entry of a listed edition in
\* place: a listing never outliving its owner (C37) relies on the remove
\* at line 213.
transfer_keeping_listing(s, pred, to, token_id, edition_number) ==
    IF is_paused(s) THEN Panic
    ELSE IF ~only_token_owner(s, pred, token_id, edition_number) THEN Panic
    ELSE LET index == s.tokens[token_id].edition_index
             edition == s.editions[edition_number + index]
         IN
    IF ~Has(s.edition_states, edition_number + index) THEN Panic
    ELSE LET state == s.edition_states[edition_number + index] IN
    IF state = LOCKED THEN Panic
    ELSE
      LET s1 == s
      IN
      IF ~(edition.edition_owner = pred /\ edition.edition_number = edition_number)
      THEN Panic
      ELSE _clear_allowance(
             [s1 EXCEPT !.editions =
                          Put(@, edition_number + index,
                              [edition EXCEPT !.edition_owner = to])],
             edition_number + index)

\* transfer
transfer(s, pred, to, token_id, edition_number) ==
    IF is_paused(s) THEN Panic
    ELSE IF ~only_token_owner(s, pred, token_id, edition_number) THEN Panic
    ELSE LET index == s.tokens[token_id].edition_index
             edition == s.editions[edition_number + index]
         IN
    IF ~Has(s.edition_states, edition_number + index) THEN Panic
    ELSE LET state == s.edition_states[edition_number + index] IN
    IF state = LOCKED THEN Panic
    ELSE
      LET s1 == IF state = LISTED
                THEN [s EXCEPT !.marketplace = Del(@, edition_number + index)]
                ELSE s
      IN
      IF ~(edition.edition_owner = pred /\ edition.edition_number = edition_number)
      THEN Panic
      ELSE _clear_allowance(
             [s1 EXCEPT !.editions =
                          Put(@, edition_number + index,
                              [edition EXCEPT !.edition_owner = to])],
             edition_number + index)

\* grant_edition_allowance
grant_edition_allowance(s, pred, token_id, edition_id, account) ==
    IF ~only_token_owner(s, pred, token_id, edition_id) THEN Panic
    ELSE LET idx == s.tokens[token_id].edition_index + edition_id IN
    IF ~Has(s.edition_allowances, idx) THEN Panic
    ELSE LET allowances == s.edition_allowances[idx] IN
    IF set_contains(s, allowances, account) THEN Panic
    ELSE LET r == set_insert(s, allowances, account) IN
         Ok([r.s EXCEPT !.edition_allowances = Put(@, idx, r.set)], <<>>)

\* remove_edition_allowance
remove_edition_allowance(s, pred, token_id, edition_id, account) ==
    IF ~only_token_owner(s, pred, token_id, edition_id) THEN Panic
    ELSE LET idx == s.tokens[token_id].edition_index + edition_id IN
    IF ~Has(s.edition_allowances, idx) THEN Panic
    ELSE LET allowances == s.edition_allowances[idx] IN
    IF ~set_contains(s, allowances, account) THEN Panic
    ELSE LET r == set_remove(s, allowances, account) IN
         IF ~r.ok THEN Panic
         ELSE Ok([r.s EXCEPT !.edition_allowances = Put(@, idx, r.set)], <<>>)

\* check_allowance: ok is FALSE when an unwrap panics
check_allowance(s, token_id, edition_id, account) ==
    IF ~Has(s.tokens, token_id) THEN [ok |-> FALSE]
    ELSE _is_allowed(s, s.tokens[token_id].edition_index + edition_id, account)


(***************************************************************************)
(* Methods outside NEP4: minting, burning, marketplace, offers.            *)
(***************************************************************************)
\* Promise::new(account).transfer(amount)
Pay(account, amount, reason) ==
    [to |-> account, amount |-> amount, reason |-> reason]

\* u128::from_str on a string given as its sequence of characters: ok only
\* for a non-empty sequence of decimal digits
DigitValue(c) ==
    CASE c = "0" -> 0 [] c = "1" -> 1 [] c = "2" -> 2 [] c = "3" -> 3
      [] c = "4" -> 4 [] c = "5" -> 5 [] c = "6" -> 6 [] c = "7" -> 7
      [] c = "8" -> 8 [] c = "9" -> 9 [] OTHER -> -1

RECURSIVE DecimalValue(_)
DecimalValue(str) ==
    IF str = <<>> THEN 0
    ELSE 10 * DecimalValue(SubSeq(str, 1, Len(str) - 1)) + DigitValue(str[Len(str)])

u128_from_str(str) ==
    IF str = <<>> \/ \E i \in 1 .. Len(str) : DigitValue(str[i]) < 0
    THEN [ok |-> FALSE]
    ELSE [ok |-> TRUE, value |-> DecimalValue(str)]

\* add_minter
add_minter(s, pred, minter) ==
    IF ~only_owner(s, pred) THEN Panic
    ELSE Ok([s EXCEPT !.minters = @ \cup {minter}], <<>>)

\* remove_minter
remove_minter(s, pred, minter) ==
    IF ~only_owner(s, pred) THEN Panic
    ELSE IF minter \notin s.minters THEN Panic
    ELSE Ok([s EXCEPT !.minters = @ \ {minter}], <<>>)

\* add_collection_minter
add_collection_minter(s, pred, collection_id, person) ==
    IF ~Has(s.collections, collection_id) THEN Panic
    ELSE LET target == s.collections[collection_id] IN
    IF ~(target.creator = pred) THEN Panic
    ELSE IF \E k \in 1 .. Len(target.minters) : target.minters[k] = person
    THEN Panic
    ELSE Ok([s EXCEPT !.collections =
                Put(@, collection_id,
                    [target EXCEPT !.minters = Append(@, person)])], <<>>)

\* remove_collection_minter: the changed copy of the collection is logged
\* but never inserted into the map again
remove_collection_minter(s, pred, collection_id, person) ==
    IF ~Has(s.collections, collection_id) THEN Panic
    ELSE LET target == s.collections[collection_id] IN
    IF ~(target.creator = pred) THEN Panic
    ELSE IF ~(\E k \in 1 .. Len(target.minters) : target.minters[k] = person)
    THEN Panic
    ELSE Ok(s, <<>>)

\* _validate_collection: all three assertions hold
_validate_collection(s, meta) ==
    /\ meta.name_len <= MAX_NAME_LENGTH
    /\ meta.description_len <= MAX_DESCRIPTION_LENGTH
    /\ meta.thumbnail_len = IPFS_HASH_LENGTH

\* create_collection: the minters the caller passes are kept, the caller is
\* appended
create_collection(s, pred, collection, attached_deposit) ==
    IF ~(attached_deposit >= s.create_collection_fee) THEN Panic
    ELSE IF ~_validate_collection(s, collection) THEN Panic
    ELSE IF ~only_whitelisted(s, pred) THEN Panic
    ELSE
      LET new_collection_id == s.total_collections + 1 IN
      Ok([s EXCEPT
            !.collections = Put(@, new_collection_id,
                                [creator |-> pred,
                                 minters |-> Append(collection.minters, pred)]),
            !.total_collections = @ + 1], <<>>)

\* generate_genesis_collection
generate_genesis_collection(s, pred) ==
    IF ~only_owner(s, pred) THEN Panic
    ELSE IF Has(s.collections, 0) THEN Panic
    ELSE Ok([s EXCEPT
               !.collections = Put(@, 0, [creator |-> GenesisCreator,
                                          minters |-> <<>>]),
               !.paused = FALSE], <<>>)

\* pause
pause(s, pred) ==
    IF ~only_owner(s, pred) THEN Panic ELSE Ok([s EXCEPT !.paused = TRUE], <<>>)

\* unpause
unpause(s, pred) ==
    IF ~only_owner(s, pred) THEN Panic ELSE Ok([s EXCEPT !.paused = FALSE], <<>>)

\* set_mint_fee
set_mint_fee(s, pred, fee) ==
    IF ~only_owner(s, pred) THEN Panic
    ELSE IF ~u128_from_str(fee).ok THEN Panic
    ELSE Ok([s EXCEPT !.mint_storage_fee = u128_from_str(fee).value], <<>>)

\* set_edition_fee
set_edition_fee(s, pred, fee) ==
    IF ~only_owner(s, pred) THEN Panic
    ELSE IF ~u128_from_str(fee).ok THEN Panic
    ELSE Ok([s EXCEPT !.edition_storage_fee = u128_from_str(fee).value], <<>>)

\* set_max_edition
set_max_edition(s, pred, value) ==
    IF ~only_owner(s, pred) THEN Panic
    ELSE Ok([s EXCEPT !.MAX_EDITIONS = value], <<>>)

\* A set_trade_fee without the owner check of line 787 (C30).
set_trade_fee_by_anyone(s, pred, fee) ==
    Ok([s EXCEPT !.trade_fee = fee], <<>>)

\* set_trade_fee
set_trade_fee(s, pred, fee) ==
    IF ~only_owner(s, pred) THEN Panic
    ELSE Ok([s EXCEPT !.trade_fee = fee], <<>>)

\* A _validate_token without the assertion on the edition count (C17).
_validate_token_without_edition_limit(s, meta) ==
    /\ meta.description_len <= MAX_DESCRIPTION_LENGTH
    /\ meta.name_len < MAX_NAME_LENGTH
    /\ meta.external_link_len <= MAX_EXTERNAL_LINK
    /\ meta.tags_len <= MAX_TAGS

\* _validate_token: all five assertions hold
_validate_token(s, meta) ==
    /\ meta.editions <= s.MAX_EDITIONS
    /\ meta.description_len <= MAX_DESCRIPTION_LENGTH
    /\ meta.name_len < MAX_NAME_LENGTH
    /\ meta.external_link_len <= MAX_EXTERNAL_LINK
    /\ meta.tags_len <= MAX_TAGS

\* generate_editions: the loop body for i, then the rest of the loop
RECURSIVE generate_editions_from(_, _, _, _, _, _)
generate_editions_from(s, new_token_id, count, pred, current_edition, i) ==
    IF i >= count THEN s
    ELSE generate_editions_from(
           [s EXCEPT
              !.editions = Put(@, current_edition + i,
                               [edition_owner |-> pred,
                                edition_number |-> i + 1,
                                token_id |-> new_token_id]),
              !.edition_states = Put(@, current_edition + i, AVAILABLE),
              !.edition_allowances =
                  Put(@, current_edition + i,
                      set_new(prefix(ToString(current_edition))))],
           new_token_id, count, pred, current_edition, i + 1)

\* A generate_editions that starts at the index before current_edition, the
\* last index of the previous token (C15, C17).
generate_editions_off_by_one(s, new_token_id, meta, pred, current_edition) ==
    generate_editions_from(s, new_token_id, meta.editions, pred,
                           current_edition - 1, 0)

generate_editions(s, new_token_id, meta, pred, current_edition) ==
    generate_editions_from(s, new_token_id, meta.editions, pred,
                           current_edition, 0)

\* mint_token
mint_token(s, pred, meta, deposit) ==
    IF ~(deposit >= s.mint_storage_fee + s.edition_storage_fee * meta.editions)
    THEN Panic
    ELSE IF ~only_whitelisted(s, pred) THEN Panic
    ELSE IF ~_validate_token(s, meta) THEN Panic
    ELSE IF ~Has(s.collections, meta.collection_id) THEN Panic
    ELSE IF meta.collection_id > 0
            /\ ~(\E k \in 1 .. Len(s.collections[meta.collection_id].minters) :
                    s.collections[meta.collection_id].minters[k] = pred)
    THEN Panic
    ELSE
      LET new_token_id == s.current_supply
          new_edition_index == s.total_editions + 1
          stored == [creator |-> pred, royalty |-> meta.royalty,
                     editions |-> meta.editions,
                     collection_id |-> meta.collection_id]
          s1 == [s EXCEPT
                   !.tokens = Put(@, new_token_id,
                                  [edition_index |-> s.total_editions,
                                   editions |-> meta.editions,
                                   metadata |-> new_token_id]),
                   !.metadata = Put(@, new_token_id, stored)]
          s2 == generate_editions(s1, new_token_id, meta, pred, new_edition_index)
      IN Ok([s2 EXCEPT !.current_supply = @ + 1,
                       !.total_editions = @ + meta.editions], <<>>)

\* A burn that keeps the edition record and only writes the state, as the
\* prose of the burn describes it; the freeze of a burned edition (C7) relies
\* on the record being removed.
burn_edition_keeping_record(s, pred, token_id, edition_id) ==
    IF ~only_token_owner(s, pred, token_id, edition_id) THEN Panic
    ELSE LET to_burn_idx == edition_id + s.tokens[token_id].edition_index IN
    IF ~Has(s.edition_states, to_burn_idx) THEN Panic
    ELSE LET state == s.edition_states[to_burn_idx] IN
    IF state = LOCKED THEN Panic
    ELSE
      LET s1 == IF state = LISTED
                THEN [s EXCEPT !.marketplace = Del(@, to_burn_idx)]
                ELSE s
      IN _clear_allowance(
           [s1 EXCEPT !.edition_states = Put(@, to_burn_idx, BURNED)],
           to_burn_idx)

\* burn_edition
burn_edition(s, pred, token_id, edition_id) ==
    IF ~only_token_owner(s, pred, token_id, edition_id) THEN Panic
    ELSE LET to_burn_idx == edition_id + s.tokens[token_id].edition_index IN
    IF ~Has(s.edition_states, to_burn_idx) THEN Panic
    ELSE LET state == s.edition_states[to_burn_idx] IN
    IF state = LOCKED THEN Panic
    ELSE
      LET s1 == IF state = LISTED
                THEN [s EXCEPT !.marketplace = Del(@, to_burn_idx)]
                ELSE s
      IN _clear_allowance(
           [s1 EXCEPT !.editions = Del(@, to_burn_idx),
                      !.edition_states = Put(@, to_burn_idx, BURNED)],
           to_burn_idx)

\* A _set_price without the lookup of the edition record and without the
\* owner assertion: burn monotonicity (C8) relies on them.
_set_price_without_lookup(s, pred, token_id, edition_id, price) ==
    IF ~Has(s.tokens, token_id) THEN Panic
    ELSE LET index == s.tokens[token_id].edition_index IN
    Ok([s EXCEPT
          !.marketplace = Put(@, edition_id + index, price),
          !.edition_states = Put(@, edition_id + index, LISTED)], <<>>)

\* _set_price
_set_price(s, pred, token_id, edition_id, price) ==
    IF ~Has(s.tokens, token_id) THEN Panic
    ELSE LET index == s.tokens[token_id].edition_index IN
    IF ~Has(s.editions, edition_id + index) THEN Panic
    ELSE IF s.editions[edition_id + index].edition_owner # pred THEN Panic
    ELSE Ok([s EXCEPT
               !.marketplace = Put(@, edition_id + index, price),
               !.edition_states = Put(@, edition_id + index, LISTED)], <<>>)

\* set_price
set_price(s, pred, token_id, edition_id, price_as_yoctonear) ==
    IF ~only_token_owner(s, pred, token_id, edition_id) THEN Panic
    ELSE IF ~u128_from_str(price_as_yoctonear).ok THEN Panic
    ELSE _set_price(s, pred, token_id, edition_id,
                    u128_from_str(price_as_yoctonear).value)

\* batch_set_price: the loop from position i on
RECURSIVE batch_set_price_from(_, _, _, _, _, _)
batch_set_price_from(s, pred, token_id, edition_ids, price, i) ==
    IF i > Len(edition_ids) THEN Ok(s, <<>>)
    ELSE LET r == _set_price(s, pred, token_id, edition_ids[i], price) IN
         IF ~r.ok THEN Panic
         ELSE batch_set_price_from(r.s, pred, token_id, edition_ids, price, i + 1)

\* A batch_set_price that lists the first edition of the list only: the
\* bulk listing (C31) relies on the loop of lines 428-430.
batch_set_price_first_only(s, pred, token_id, edition_ids, price_as_yoctonear) ==
    IF ~(Len(edition_ids) > 0) THEN Panic
    ELSE IF ~u128_from_str(price_as_yoctonear).ok THEN Panic
    ELSE _set_price(s, pred, token_id, edition_ids[1],
                    u128_from_str(price_as_yoctonear).value)

batch_set_price(s, pred, token_id, edition_ids, price_as_yoctonear) ==
    IF ~(Len(edition_ids) > 0) THEN Panic
    ELSE IF ~u128_from_str(price_as_yoctonear).ok THEN Panic
    ELSE batch_set_price_from(s, pred, token_id, edition_ids,
                              u128_from_str(price_as_yoctonear).value, 1)

\* cancel_sale
cancel_sale(s, pred, token_id, edition_id) ==
    IF ~only_token_owner(s, pred, token_id, edition_id) THEN Panic
    ELSE LET index == s.tokens[token_id].edition_index + edition_id IN
    IF s.editions[index].edition_owner # pred THEN Panic
    ELSE Ok([s EXCEPT !.marketplace = Del(@, edition_id)], <<>>)


\* A settlement that pays the seller the whole rest although a royalty share
\* went to the creator: exactness of the split (C10) relies on the
\* subtraction of line 494.
buy_payments_seller_paid_rest(s, attached_deposit, token, target, old_owner) ==
    IF s.trade_fee = 0 \/ ~Has(s.metadata, token.metadata) THEN [ok |-> FALSE]
    ELSE
      LET nearfolio_fee == attached_deposit \div s.trade_fee
          rest == attached_deposit - nearfolio_fee
          md == s.metadata[token.metadata]
          fee_pay == <<Pay(s.fee_receiver, nearfolio_fee, "FEE")>>
          royalty_fee == rest \div md.royalty
          sellers == IF md.creator # target.edition_owner /\ md.royalty = 1
                     THEN 0 ELSE rest
          royalty_pay ==
              IF md.creator # target.edition_owner
              THEN IF md.royalty = 1 THEN <<Pay(md.creator, rest, "ROYALTY")>>
                   ELSE IF md.royalty > 1 /\ royalty_fee > 0
                        THEN <<Pay(md.creator, royalty_fee, "ROYALTY")>>
                        ELSE <<>>
              ELSE <<>>
          seller_pay == IF sellers > 0 THEN <<Pay(old_owner, sellers, "SALE")>>
                        ELSE <<>>
      IN [ok |-> TRUE, promises |-> fee_pay \o royalty_pay \o seller_pay]

\* buy, lines 480-508: the payments dispatched for attached_deposit.
\* target is the edition record read before the transfer.
buy_payments(s, attached_deposit, token, target, old_owner) ==
    IF s.trade_fee = 0 \/ ~Has(s.metadata, token.metadata) THEN [ok |-> FALSE]
    ELSE
      LET nearfolio_fee == attached_deposit \div s.trade_fee
          rest == attached_deposit - nearfolio_fee
          md == s.metadata[token.metadata]
          fee_pay == <<Pay(s.fee_receiver, nearfolio_fee, "FEE")>>
          royalty_fee == rest \div md.royalty
          sellers == IF md.creator # target.edition_owner
                     THEN IF md.royalty = 1 THEN 0
                          ELSE IF md.royalty > 1 THEN rest - royalty_fee
                          ELSE rest
                     ELSE rest
          royalty_pay ==
              IF md.creator # target.edition_owner
              THEN IF md.royalty = 1 THEN <<Pay(md.creator, rest, "ROYALTY")>>
                   ELSE IF md.royalty > 1 /\ royalty_fee > 0
                        THEN <<Pay(md.creator, royalty_fee, "ROYALTY")>>
                        ELSE <<>>
              ELSE <<>>
          seller_pay == IF sellers > 0 THEN <<Pay(old_owner, sellers, "SALE")>>
                        ELSE <<>>
      IN [ok |-> TRUE, promises |-> fee_pay \o royalty_pay \o seller_pay]

\* A buy without the assertion that the buyer is not the owner (C19).
buy_without_owner_assert(s, pred, token_id, edition_id, attached_deposit) ==
    IF ~Has(s.tokens, token_id) THEN Panic
    ELSE LET token == s.tokens[token_id]
             edition_index == token.edition_index + edition_id
         IN
    IF ~Has(s.marketplace, edition_index) THEN Panic
    ELSE IF ~(attached_deposit >= s.marketplace[edition_index]) THEN Panic
    ELSE IF ~Has(s.editions, edition_index) THEN Panic
    ELSE LET target == s.editions[edition_index]
             old_owner == target.edition_owner
         IN
    LET r == _internal_transfer(s, old_owner, pred, token_id, edition_id,
                                     edition_index)
         IN
    IF ~r.ok THEN Panic
    ELSE LET pay == buy_payments(r.s, attached_deposit, token, target, old_owner)
         IN IF ~pay.ok THEN Panic ELSE Ok(r.s, pay.promises)

\* buy
buy(s, pred, token_id, edition_id, attached_deposit) ==
    IF ~Has(s.tokens, token_id) THEN Panic
    ELSE LET token == s.tokens[token_id]
             edition_index == token.edition_index + edition_id
         IN
    IF ~Has(s.marketplace, edition_index) THEN Panic
    ELSE IF ~(attached_deposit >= s.marketplace[edition_index]) THEN Panic
    ELSE IF ~Has(s.editions, edition_index) THEN Panic
    ELSE LET target == s.editions[edition_index]
             old_owner == target.edition_owner
         IN
    IF ~(pred # old_owner) THEN Panic
    ELSE LET r == _internal_transfer(s, old_owner, pred, token_id, edition_id,
                                     edition_index)
         IN
    IF ~r.ok THEN Panic
    ELSE LET pay == buy_payments(r.s, attached_deposit, token, target, old_owner)
         IN IF ~pay.ok THEN Panic ELSE Ok(r.s, pay.promises)

\* gen_token_x_edition
gen_token_x_edition(token_id, edition_id) ==
    ToString(token_id) \o "::" \o ToString(edition_id)

\* An offer that accepts a deposit equal to the mint storage fee: the floor
\* of a bid (C23) relies on the strict comparison of line 515.
offer_accepting_floor(s, pred, token_id, edition_id, attached_deposit) ==
    IF s.paused THEN Panic
    ELSE IF ~Has(s.tokens, token_id) THEN Panic
    ELSE IF ~Has(s.editions, s.tokens[token_id].edition_index + edition_id)
    THEN Panic
    ELSE LET edition == s.editions[s.tokens[token_id].edition_index + edition_id]
         IN
    IF ~(attached_deposit >= s.mint_storage_fee) THEN Panic
    ELSE IF ~(edition.edition_owner # pred) THEN Panic
    ELSE
      LET tok_x_edition == gen_token_x_edition(token_id, edition_id)
          bid == [bidder |-> pred, amount |-> attached_deposit,
                  executed |-> FALSE]
          current_offers == IF Has(s.offers, tok_x_edition)
                            THEN s.offers[tok_x_edition] ELSE <<>>
      IN Ok([s EXCEPT !.offers = Put(@, tok_x_edition,
                                     Append(current_offers, bid))], <<>>)

\* offer
offer(s, pred, token_id, edition_id, attached_deposit) ==
    IF s.paused THEN Panic
    ELSE IF ~Has(s.tokens, token_id) THEN Panic
    ELSE IF ~Has(s.editions, s.tokens[token_id].edition_index + edition_id)
    THEN Panic
    ELSE LET edition == s.editions[s.tokens[token_id].edition_index + edition_id]
         IN
    IF ~(attached_deposit > s.mint_storage_fee) THEN Panic
    ELSE IF ~(edition.edition_owner # pred) THEN Panic
    ELSE
      LET tok_x_edition == gen_token_x_edition(token_id, edition_id)
          bid == [bidder |-> pred, amount |-> attached_deposit,
                  executed |-> FALSE]
          current_offers == IF Has(s.offers, tok_x_edition)
                            THEN s.offers[tok_x_edition] ELSE <<>>
      IN Ok([s EXCEPT !.offers = Put(@, tok_x_edition,
                                     Append(current_offers, bid))], <<>>)

\* A settlement of accept_offer that compares the creator with the owner
\* stored after the transfer (the bidder) instead of the edition read before
\* it: the reference split (C11) relies on the seller being the old owner.
accept_offer_payments_new_owner(s, amount, token, edition, old_owner) ==
    IF s.trade_fee = 0 \/ ~Has(s.metadata, token.metadata) THEN [ok |-> FALSE]
    ELSE
      LET nearfolio_fee == amount \div s.trade_fee
          rest == amount - nearfolio_fee
          md == s.metadata[token.metadata]
          fee_pay == <<Pay(s.fee_receiver, nearfolio_fee, "FEE")>>
          royalty_fee == rest \div md.royalty
          sellers == IF md.creator # s.editions[token.edition_index + edition.edition_number].edition_owner
                     THEN IF md.royalty = 1 THEN 0
                          ELSE IF md.royalty > 1 THEN rest - royalty_fee
                          ELSE rest
                     ELSE rest
          royalty_pay ==
              IF md.creator # s.editions[token.edition_index + edition.edition_number].edition_owner
              THEN IF md.royalty = 1 THEN <<Pay(md.creator, rest, "ROYALTY")>>
                   ELSE IF md.royalty > 1 /\ royalty_fee > 0
                        THEN <<Pay(md.creator, royalty_fee, "ROYALTY")>>
                        ELSE <<>>
              ELSE <<>>
          seller_pay == IF sellers > 0 THEN <<Pay(old_owner, sellers, "SALE")>>
                        ELSE <<>>
      IN [ok |-> TRUE, promises |-> fee_pay \o royalty_pay \o seller_pay]

\* accept_offer, lines 550-579: the payments dispatched for the bid amount.
\* edition is the edition record read before the transfer.
accept_offer_payments(s, amount, token, edition, old_owner) ==
    IF s.trade_fee = 0 \/ ~Has(s.metadata, token.metadata) THEN [ok |-> FALSE]
    ELSE
      LET nearfolio_fee == amount \div s.trade_fee
          rest == amount - nearfolio_fee
          md == s.metadata[token.metadata]
          fee_pay == <<Pay(s.fee_receiver, nearfolio_fee, "FEE")>>
          royalty_fee == rest \div md.royalty
          sellers == IF md.creator # edition.edition_owner
                     THEN IF md.royalty = 1 THEN 0
                          ELSE IF md.royalty > 1 THEN rest - royalty_fee
                          ELSE rest
                     ELSE rest
          royalty_pay ==
              IF md.creator # edition.edition_owner
              THEN IF md.royalty = 1 THEN <<Pay(md.creator, rest, "ROYALTY")>>
                   ELSE IF md.royalty > 1 /\ royalty_fee > 0
                        THEN <<Pay(md.creator, royalty_fee, "ROYALTY")>>
                        ELSE <<>>
              ELSE <<>>
          seller_pay == IF sellers > 0 THEN <<Pay(old_owner, sellers, "SALE")>>
                        ELSE <<>>
      IN [ok |-> TRUE, promises |-> fee_pay \o royalty_pay \o seller_pay]

\* An accept_offer whose replace of the bid is lost: the bid is settled but
\* stays open; a bid paying out at most once (C35) relies on that write.
accept_offer_keeping_bid_open(s, pred, token_id, edition_id, idx) ==
    LET tokxedition == gen_token_x_edition(token_id, edition_id) IN
    IF ~Has(s.tokens, token_id) THEN Panic
    ELSE LET token == s.tokens[token_id]
             edition_idx == token.edition_index + edition_id
         IN
    IF ~Has(s.editions, edition_idx) THEN Panic
    ELSE LET edition == s.editions[edition_idx] IN
    IF ~(edition.edition_owner = pred) THEN Panic
    ELSE LET old_owner == edition.edition_owner IN
    IF ~Has(s.offers, tokxedition) THEN Panic
    ELSE IF ~(idx < Len(s.offers[tokxedition])) THEN Panic
    ELSE LET to_be_accepted == s.offers[tokxedition][idx + 1] IN
    IF ~(to_be_accepted.executed = FALSE) THEN Panic
    ELSE LET r == _internal_transfer(s, pred, to_be_accepted.bidder, token_id,
                                     edition_id, edition_idx)
         IN
    IF ~r.ok THEN Panic
    ELSE
      LET s1 == [r.s EXCEPT !.edition_states = Put(@, edition_idx, AVAILABLE)]
          pay == accept_offer_payments(s1, to_be_accepted.amount, token,
                                       edition, old_owner)
          done == to_be_accepted
      IN IF ~pay.ok THEN Panic
         ELSE Ok([s1 EXCEPT !.offers =
                     Put(@, tokxedition,
                         [s.offers[tokxedition] EXCEPT ![idx + 1] = done])],
                 pay.promises)

\* accept_offer
accept_offer(s, pred, token_id, edition_id, idx) ==
    LET tokxedition == gen_token_x_edition(token_id, edition_id) IN
    IF ~Has(s.tokens, token_id) THEN Panic
    ELSE LET token == s.tokens[token_id]
             edition_idx == token.edition_index + edition_id
         IN
    IF ~Has(s.editions, edition_idx) THEN Panic
    ELSE LET edition == s.editions[edition_idx] IN
    IF ~(edition.edition_owner = pred) THEN Panic
    ELSE LET old_owner == edition.edition_owner IN
    IF ~Has(s.offers, tokxedition) THEN Panic
    ELSE IF ~(idx < Len(s.offers[tokxedition])) THEN Panic
    ELSE LET to_be_accepted == s.offers[tokxedition][idx + 1] IN
    IF ~(to_be_accepted.executed = FALSE) THEN Panic
    ELSE LET r == _internal_transfer(s, pred, to_be_accepted.bidder, token_id,
                                     edition_id, edition_idx)
         IN
    IF ~r.ok THEN Panic
    ELSE
      LET s1 == [r.s EXCEPT !.edition_states = Put(@, edition_idx, AVAILABLE)]
          pay == accept_offer_payments(s1, to_be_accepted.amount, token,
                                       edition, old_owner)
          done == [to_be_accepted EXCEPT !.executed = TRUE, !.bidder = "",
                                         !.amount = 0]
      IN IF ~pay.ok THEN Panic
         ELSE Ok([s1 EXCEPT !.offers =
                     Put(@, tokxedition,
                         [s.offers[tokxedition] EXCEPT ![idx + 1] = done])],
                 pay.promises)

\* A cancel_offer that takes the bid out of the list instead of replacing
\* it in place: the stable indices of the bids (C24) rely on the replace.
cancel_offer_removing_bid(s, pred, token_id, edition_id, idx) ==
    LET tokxedition == gen_token_x_edition(token_id, edition_id) IN
    IF ~Has(s.offers, tokxedition) THEN Panic
    ELSE IF ~(idx < Len(s.offers[tokxedition])) THEN Panic
    ELSE LET to_be_cancelled == s.offers[tokxedition][idx + 1] IN
    IF ~(to_be_cancelled.executed = FALSE) THEN Panic
    ELSE IF ~(to_be_cancelled.bidder = pred) THEN Panic
    ELSE
      LET refund == IF to_be_cancelled.amount > s.edition_storage_fee
                    THEN <<Pay(pred, to_be_cancelled.amount - s.edition_storage_fee,
                               "REFUND")>>
                    ELSE <<>>
          bids == s.offers[tokxedition]
      IN Ok([s EXCEPT !.offers =
                Put(@, tokxedition,
                    SubSeq(bids, 1, idx) \o SubSeq(bids, idx + 2, Len(bids)))],
            refund)

\* A cancel_offer that refunds the whole amount: the refund of a withdrawn
\* bid (C22) relies on the storage fee being kept back at line 599.
cancel_offer_refunding_all(s, pred, token_id, edition_id, idx) ==
    LET tokxedition == gen_token_x_edition(token_id, edition_id) IN
    IF ~Has(s.offers, tokxedition) THEN Panic
    ELSE IF ~(idx < Len(s.offers[tokxedition])) THEN Panic
    ELSE LET to_be_cancelled == s.offers[tokxedition][idx + 1] IN
    IF ~(to_be_cancelled.executed = FALSE) THEN Panic
    ELSE IF ~(to_be_cancelled.bidder = pred) THEN Panic
    ELSE
      LET refund == IF to_be_cancelled.amount > 0
                    THEN <<Pay(pred, to_be_cancelled.amount, "REFUND")>>
                    ELSE <<>>
          done == [to_be_cancelled EXCEPT !.bidder = "::", !.executed = TRUE]
      IN Ok([s EXCEPT !.offers =
                Put(@, tokxedition,
                    [s.offers[tokxedition] EXCEPT ![idx + 1] = done])],
            refund)

\* A cancel_offer whose last replace is lost: the bid is refunded but stays
\* unexecuted; the terminal state of a bid (C9) relies on that write.
cancel_offer_without_last_replace(s, pred, token_id, edition_id, idx) ==
    LET tokxedition == gen_token_x_edition(token_id, edition_id) IN
    IF ~Has(s.offers, tokxedition) THEN Panic
    ELSE IF ~(idx < Len(s.offers[tokxedition])) THEN Panic
    ELSE LET to_be_cancelled == s.offers[tokxedition][idx + 1] IN
    IF ~(to_be_cancelled.executed = FALSE) THEN Panic
    ELSE IF ~(to_be_cancelled.bidder = pred) THEN Panic
    ELSE
      LET refund == IF to_be_cancelled.amount > s.edition_storage_fee
                    THEN <<Pay(pred, to_be_cancelled.amount - s.edition_storage_fee,
                               "REFUND")>>
                    ELSE <<>>
      IN Ok(s, refund)

\* A cancel_offer that asserts the contract is unpaused as the other bid
\* calls do: the withdrawal of an open bid at any time (C36) relies on
\* cancel_offer having no such assertion.
cancel_offer_asserting_unpaused(s, pred, token_id, edition_id, idx) ==
    IF is_paused(s) THEN Panic ELSE
    LET tokxedition == gen_token_x_edition(token_id, edition_id) IN
    IF ~Has(s.offers, tokxedition) THEN Panic
    ELSE IF ~(idx < Len(s.offers[tokxedition])) THEN Panic
    ELSE LET to_be_cancelled == s.offers[tokxedition][idx + 1] IN
    IF ~(to_be_cancelled.executed = FALSE) THEN Panic
    ELSE IF ~(to_be_cancelled.bidder = pred) THEN Panic
    ELSE
      LET refund == IF to_be_cancelled.amount > s.edition_storage_fee
                    THEN <<Pay(pred, to_be_cancelled.amount - s.edition_storage_fee,
                               "REFUND")>>
                    ELSE <<>>
          done == [to_be_cancelled EXCEPT !.bidder = "::", !.executed = TRUE]
      IN Ok([s EXCEPT !.offers =
                Put(@, tokxedition,
                    [s.offers[tokxedition] EXCEPT ![idx + 1] = done])],
            refund)

\* cancel_offer.  Vector::replace writes the element to contract storage at
\* once, so the last replace (line 611) is stored although the vector is not
\* inserted into the map again.
cancel_offer(s, pred, token_id, edition_id, idx) ==
    LET tokxedition == gen_token_x_edition(token_id, edition_id) IN
    IF ~Has(s.offers, tokxedition) THEN Panic
    ELSE IF ~(idx < Len(s.offers[tokxedition])) THEN Panic
    ELSE LET to_be_cancelled == s.offers[tokxedition][idx + 1] IN
    IF ~(to_be_cancelled.executed = FALSE) THEN Panic
    ELSE IF ~(to_be_cancelled.bidder = pred) THEN Panic
    ELSE
      LET refund == IF to_be_cancelled.amount > s.edition_storage_fee
                    THEN <<Pay(pred, to_be_cancelled.amount - s.edition_storage_fee,
                               "REFUND")>>
                    ELSE <<>>
          done == [to_be_cancelled EXCEPT !.bidder = "::", !.executed = TRUE]
      IN Ok([s EXCEPT !.offers =
                Put(@, tokxedition,
                    [s.offers[tokxedition] EXCEPT ![idx + 1] = done])],
            refund)


(***************************************************************************)
(* The storage as a call has written it when it ends, by returning or by   *)
(* panicking, for the methods that write before their last check; and the  *)
(* outcome of the call: a panic discards the writes of the call.           *)
(***************************************************************************)
Written(ok, s) == [ok |-> ok, s |-> s]

\* An outcome that keeps the writes made before the panic (C14).
call_outcome_keeping_writes(before, w) ==
    IF w.ok \/ "s" \in DOMAIN w THEN w.s ELSE before

\* assert_eq! / env::panic: the state after the call
call_outcome(before, w) == IF w.ok THEN w.s ELSE before

\* transfer: the listing is removed (line 213) before the assertion of line 219
transfer_written(s, pred, to, token_id, edition_number) ==
    IF is_paused(s) THEN Written(FALSE, s)
    ELSE IF ~only_token_owner(s, pred, token_id, edition_number)
    THEN Written(FALSE, s)
    ELSE LET index == s.tokens[token_id].edition_index
             edition == s.editions[edition_number + index]
         IN
    IF ~Has(s.edition_states, edition_number + index) THEN Written(FALSE, s)
    ELSE LET state == s.edition_states[edition_number + index] IN
    IF state = LOCKED THEN Written(FALSE, s)
    ELSE
      LET s1 == IF state = LISTED
                THEN [s EXCEPT !.marketplace = Del(@, edition_number + index)]
                ELSE s
          s2 == [s1 EXCEPT !.editions =
                              Put(@, edition_number + index,
                                  [edition EXCEPT !.edition_owner = to])]
          c == _clear_allowance(s2, edition_number + index)
      IN
      IF ~(edition.edition_owner = pred /\ edition.edition_number = edition_number)
      THEN Written(FALSE, s1)
      ELSE IF c.ok THEN Written(TRUE, c.s) ELSE Written(FALSE, s2)

\* batch_set_price: the editions before the failing one are already listed
RECURSIVE batch_set_price_written_from(_, _, _, _, _, _)
batch_set_price_written_from(s, pred, token_id, edition_ids, price, i) ==
    IF i > Len(edition_ids) THEN Written(TRUE, s)
    ELSE LET r == _set_price(s, pred, token_id, edition_ids[i], price) IN
         IF ~r.ok THEN Written(FALSE, s)
         ELSE batch_set_price_written_from(r.s, pred, token_id, edition_ids,
                                           price, i + 1)

batch_set_price_written(s, pred, token_id, edition_ids, price_as_yoctonear) ==
    IF ~(Len(edition_ids) > 0) THEN Written(FALSE, s)
    ELSE IF ~u128_from_str(price_as_yoctonear).ok THEN Written(FALSE, s)
    ELSE batch_set_price_written_from(s, pred, token_id, edition_ids,
                                      u128_from_str(price_as_yoctonear).value, 1)

\* buy: _internal_transfer (line 476) has moved the edition before the
\* division by trade_fee (line 480); the assertions of _internal_transfer
\* precede its own writes
buy_written(s, pred, token_id, edition_id, attached_deposit) ==
    IF ~Has(s.tokens, token_id) THEN Written(FALSE, s)
    ELSE LET token == s.tokens[token_id]
             edition_index == token.edition_index + edition_id
         IN
    IF ~Has(s.marketplace, edition_index) THEN Written(FALSE, s)
    ELSE IF ~(attached_deposit >= s.marketplace[edition_index])
    THEN Written(FALSE, s)
    ELSE IF ~Has(s.editions, edition_index) THEN Written(FALSE, s)
    ELSE LET target == s.editions[edition_index]
             old_owner == target.edition_owner
             r == _internal_transfer(s, old_owner, pred, token_id, edition_id,
                                     edition_index)
         IN
    IF ~(pred # old_owner) THEN Written(FALSE, s)
    ELSE IF ~r.ok THEN Written(FALSE, s)
    ELSE IF ~buy_payments(r.s, attached_deposit, token, target, old_owner).ok
    THEN Written(FALSE, r.s)
    ELSE Written(TRUE, r.s)

(***************************************************************************)
(* Inputs of the calls.                                                    *)
(***************************************************************************)
TokenArgs == 0 .. (MaxTokens - 1)
EditionArgs == 0 .. MaxEditionArg
BidArgs == 0 .. MaxBids
MinterCandidates == {"alice"}
EscrowGranters == {"alice"}
EscrowDelegates == {"bob"}
AllowanceAccounts == {"bob", "carol"}
Royalties == {2}
SettleRoyalties == {0, 1, 2, 5}
PriceStrings == {<<"5", "0", "0">>, <<"5", "x">>}
SettlePriceStrings == {<<"0">>}
BuyDeposits == {499, 500}
EditionIdLists ==
    {<<>>} \cup {<<a>> : a \in EditionArgs}
           \cup {<<a, b>> : a \in EditionArgs, b \in EditionArgs}

Bidders == {"bob"}

MetadataInputs(counts, royalties) ==
    [editions : counts, royalty : royalties,
     collection_id : {0}, name_len : {10}, description_len : {100},
     external_link_len : {20}, tags_len : {3}]

EscrowGrants(s) ==
    LET RECURSIVE Sum(_)
        Sum(K) == IF K = {} THEN 0
                  ELSE LET k == CHOOSE x \in K : TRUE
                       IN Cardinality(s.account_gives_access[k]) + Sum(K \ {k})
    IN Sum(DOMAIN s.account_gives_access)

AllowanceGrants(s) ==
    LET RECURSIVE Sum(_)
        Sum(K) == IF K = {} THEN 0
                  ELSE LET k == CHOOSE x \in K : TRUE
                       IN s.edition_allowances[k].len + Sum(K \ {k})
    IN Sum(DOMAIN s.edition_allowances)

(***************************************************************************)
(* Actions: one per public method.                                         *)
(***************************************************************************)
GenerateGenesisCollection ==
    \E pred \in Accounts :
        Commit(generate_genesis_collection(contract, pred))

AddMinter ==
    \E pred \in Accounts, minter \in MinterCandidates :
        Commit(add_minter(contract, pred, minter))

MintTokenWith(counts, royalties) ==
    \E pred \in Users, meta \in MetadataInputs(counts, royalties) :
      \E deposit \in {contract.mint_storage_fee
                         + contract.edition_storage_fee * meta.editions - 1,
                      contract.mint_storage_fee
                         + contract.edition_storage_fee * meta.editions} :
        /\ contract.current_supply < MaxTokens
        /\ contract.total_editions + meta.editions <= MaxTotalEditions
        /\ Commit(mint_token(contract, pred, meta, deposit))

MintToken == MintTokenWith(1 .. MaxEditionsPerMint, Royalties)

MintTokenAnyCount == MintTokenWith(0 .. MaxEditionsPerMint, Royalties)

GrantAccess ==
    \E pred \in EscrowGranters, escrow \in EscrowDelegates :
        /\ EscrowGrants(contract) < MaxEscrowGrants
        /\ Commit(grant_access(contract, pred, escrow))

RevokeAccess ==
    \E pred \in EscrowGranters, escrow \in EscrowDelegates :
        /\ check_access(contract, pred, escrow)
        /\ Commit(revoke_access(contract, pred, escrow))

TransferFrom ==
    \E pred \in Users, from \in Users, to \in Users,
       token_id \in TokenArgs, edition_number \in EditionArgs :
        Commit(transfer_from(contract, pred, from, to, token_id, edition_number))

Transfer ==
    \E pred \in Users, to \in Users,
       token_id \in TokenArgs, edition_number \in EditionArgs :
        Commit(transfer(contract, pred, to, token_id, edition_number))

GrantEditionAllowanceWith(max) ==
    \E pred \in Users, account \in AllowanceAccounts,
       token_id \in TokenArgs, edition_id \in EditionArgs :
        /\ AllowanceGrants(contract) < max
        /\ Commit(grant_edition_allowance(contract, pred, token_id, edition_id, account))

GrantEditionAllowance == GrantEditionAllowanceWith(MaxAllowances)

GrantEditionAllowanceWide == GrantEditionAllowanceWith(MaxAllowancesWide)

RemoveEditionAllowance ==
    \E pred \in Users, account \in AllowanceAccounts,
       token_id \in TokenArgs, edition_id \in EditionArgs :
        Commit(remove_edition_allowance(contract, pred, token_id, edition_id, account))

BurnEdition ==
    \E pred \in Users, token_id \in TokenArgs, edition_id \in EditionArgs :
        Commit(burn_edition(contract, pred, token_id, edition_id))

SetPriceWith(prices) ==
    \E pred \in Users, token_id \in TokenArgs, edition_id \in EditionArgs,
       price \in prices :
        Commit(set_price(contract, pred, token_id, edition_id, price))

SetPrice == SetPriceWith(PriceStrings)

BatchSetPrice ==
    \E pred \in Users, token_id \in TokenArgs, edition_ids \in EditionIdLists,
       price \in PriceStrings :
        /\ Len(edition_ids) # 1
        /\ Commit(batch_set_price(contract, pred, token_id, edition_ids, price))

CancelSale ==
    \E pred \in Users, token_id \in TokenArgs, edition_id \in EditionArgs :
        Commit(cancel_sale(contract, pred, token_id, edition_id))

BuyWith(deposits) ==
    \E pred \in Users, token_id \in TokenArgs, edition_id \in EditionArgs,
       deposit \in deposits :
        Commit(buy(contract, pred, token_id, edition_id, deposit))

Buy == BuyWith(BuyDeposits)

Offer ==
    \E pred \in Bidders, token_id \in TokenArgs, edition_id \in EditionArgs,
       deposit \in {contract.mint_storage_fee, contract.mint_storage_fee + 1} :
        /\ BidCount(contract) < MaxBids
        /\ Commit(offer(contract, pred, token_id, edition_id, deposit))

AcceptOffer ==
    \E pred \in Users, token_id \in TokenArgs, edition_id \in EditionArgs,
       idx \in BidArgs :
        Commit(accept_offer(contract, pred, token_id, edition_id, idx))

CancelOffer ==
    \E pred \in Users, token_id \in TokenArgs, edition_id \in EditionArgs,
       idx \in BidArgs :
        Commit(cancel_offer(contract, pred, token_id, edition_id, idx))

Next ==
    \/ GenerateGenesisCollection
    \/ AddMinter
    \/ MintToken
    \/ GrantAccess
    \/ RevokeAccess
    \/ TransferFrom
    \/ Transfer
    \/ GrantEditionAllowance
    \/ RemoveEditionAllowance
    \/ BurnEdition
    \/ SetPrice
    \/ BatchSetPrice
    \/ CancelSale
    \/ Buy
    \/ Offer
    \/ AcceptOffer
    \/ CancelOffer

Spec == Init /\ [][Next]_vars

(***************************************************************************)
(* The allowance specification: no offers, but zero-edition tokens and     *)
(* more standing allowances.                                               *)
(***************************************************************************)
NextAllowance ==
    \/ GenerateGenesisCollection
    \/ AddMinter
    \/ MintTokenAnyCount
    \/ GrantAccess
    \/ RevokeAccess
    \/ TransferFrom
    \/ Transfer
    \/ GrantEditionAllowanceWide
    \/ RemoveEditionAllowance
    \/ BurnEdition
    \/ SetPrice
    \/ CancelSale
    \/ Buy

SpecAllowance == Init /\ [][NextAllowance]_vars


(***************************************************************************)
(* The settlement specification: one single-edition token of every         *)
(* royalty, every platform fee divisor and every gross amount of the       *)
(* bounds, sold by its creator or by a later owner, through buy and        *)
(* through accept_offer.                                                   *)
(***************************************************************************)
SettleTradeFees == (0 .. MaxDivisor) \cup {TRADE_FEE}
SettleMintFees == {<<"0">>}
GrossAmounts == (0 .. MaxGross) \cup {1000}
OfferAmounts == {1, 2, MaxGross, 1000}

SetTradeFee ==
    \E pred \in Accounts, fee \in SettleTradeFees :
        Commit(set_trade_fee(contract, pred, fee))

SetMintFee ==
    \E pred \in Accounts, fee \in SettleMintFees :
        Commit(set_mint_fee(contract, pred, fee))

MintTokenSettle ==
    /\ contract.current_supply < MaxSettleTokens
    /\ MintTokenWith({1}, SettleRoyalties)

SetPriceSettle == SetPriceWith(SettlePriceStrings)

BuySettle == BuyWith(GrossAmounts)

OfferSettle ==
    \E pred \in Users, token_id \in TokenArgs, edition_id \in EditionArgs,
       deposit \in OfferAmounts :
        /\ BidCount(contract) < MaxBids
        /\ Commit(offer(contract, pred, token_id, edition_id, deposit))

NextSettle ==
    \/ GenerateGenesisCollection
    \/ AddMinter
    \/ SetTradeFee
    \/ SetMintFee
    \/ MintTokenSettle
    \/ Transfer
    \/ SetPriceSettle
    \/ BuySettle
    \/ OfferSettle
    \/ AcceptOffer

SpecSettle == Init /\ [][NextSettle]_vars

(***************************************************************************)
(* The pause specification: the owner pauses and unpauses the contract     *)
(* around mints of single editions, escrow grants, listings, purchases,    *)
(* offers and transfers.                                                   *)
(***************************************************************************)
Pause ==
    \E pred \in Accounts : Commit(pause(contract, pred))

Unpause ==
    \E pred \in Accounts : Commit(unpause(contract, pred))

MintTokenSingle == MintTokenWith({1}, Royalties)

NextPause ==
    \/ GenerateGenesisCollection
    \/ AddMinter
    \/ Pause
    \/ Unpause
    \/ MintTokenSingle
    \/ GrantAccess
    \/ TransferFrom
    \/ Transfer
    \/ SetPrice
    \/ Buy
    \/ Offer
    \/ AcceptOffer

SpecPause == Init /\ [][NextPause]_vars

(***************************************************************************)
(* The rejection specification: listings, batch listings, transfers and    *)
(* purchases under a trade fee divisor that the owner may set to zero.     *)
(***************************************************************************)
RejectTradeFees == {0, TRADE_FEE}

SetTradeFeeOrZero ==
    \E pred \in Accounts, fee \in RejectTradeFees :
        Commit(set_trade_fee(contract, pred, fee))

NextReject ==
    \/ GenerateGenesisCollection
    \/ AddMinter
    \/ SetTradeFeeOrZero
    \/ MintToken
    \/ SetPrice
    \/ BatchSetPrice
    \/ CancelSale
    \/ Transfer
    \/ Buy

SpecReject == Init /\ [][NextReject]_vars

(***************************************************************************)
(* The mint specification: more and larger tokens, tokens without          *)
(* editions, burns, transfers and listings between the mints.              *)
(***************************************************************************)
MintTokenMany ==
    \E pred \in Users, meta \in MetadataInputs(0 .. MaxEditionsPerMint, Royalties) :
      \E deposit \in {contract.mint_storage_fee
                         + contract.edition_storage_fee * meta.editions - 1,
                      contract.mint_storage_fee
                         + contract.edition_storage_fee * meta.editions} :
        /\ contract.current_supply < MaxMintTokens
        /\ contract.total_editions + meta.editions <= MaxMintEditions
        /\ Commit(mint_token(contract, pred, meta, deposit))

NextMint ==
    \/ GenerateGenesisCollection
    \/ AddMinter
    \/ MintTokenMany
    \/ BurnEdition
    \/ Transfer
    \/ SetPrice

SpecMint == Init /\ [][NextMint]_vars

(***************************************************************************)
(* The collection specification: whitelisted accounts create collections,  *)
(* creators add and remove collection minters, and tokens are minted into  *)
(* the genesis collection and into the created ones.                       *)
(***************************************************************************)
CollectionArgs == 0 .. MaxCollections

CollectionInputs ==
    [name_len : {10}, description_len : {100}, thumbnail_len : {45, IPFS_HASH_LENGTH},
     minters : {<<>>, <<"carol">>}]

CollectionMetadataInputs ==
    {[m EXCEPT !.collection_id = c] :
        m \in MetadataInputs({1}, Royalties), c \in CollectionArgs}

MinterCandidatesWide == {"alice", "bob"}

AddMinterWide ==
    \E pred \in Accounts, minter \in MinterCandidatesWide :
        Commit(add_minter(contract, pred, minter))

RemoveMinter ==
    \E pred \in Accounts, minter \in MinterCandidatesWide :
        Commit(remove_minter(contract, pred, minter))

CreateCollection ==
    \E pred \in Users, collection \in CollectionInputs,
       deposit \in {contract.create_collection_fee - 1,
                    contract.create_collection_fee} :
        /\ contract.total_collections < MaxCollections
        /\ Commit(create_collection(contract, pred, collection, deposit))

AddCollectionMinter ==
    \E pred \in Users, collection_id \in CollectionArgs, person \in Users :
        Commit(add_collection_minter(contract, pred, collection_id, person))

RemoveCollectionMinter ==
    \E pred \in Users, collection_id \in CollectionArgs, person \in Users :
        Commit(remove_collection_minter(contract, pred, collection_id, person))

MintTokenCollection ==
    \E pred \in Users, meta \in CollectionMetadataInputs :
        /\ contract.current_supply < MaxTokens
        /\ Commit(mint_token(contract, pred, meta,
                             contract.mint_storage_fee
                               + contract.edition_storage_fee * meta.editions))

NextCollection ==
    \/ GenerateGenesisCollection
    \/ AddMinterWide
    \/ RemoveMinter
    \/ CreateCollection
    \/ AddCollectionMinter
    \/ RemoveCollectionMinter
    \/ MintTokenCollection

SpecCollection == Init /\ [][NextCollection]_vars

(***************************************************************************)
(* The offer specification: several bids of several bidders on the same    *)
(* and on different editions, without escrow, allowances and purchases;    *)
(* and the same with one bid and more standing allowances.                 *)
(***************************************************************************)
BidArgsWide == 0 .. MaxBidsWide
BiddersWide == {"bob", "carol"}

OfferWide ==
    \E pred \in BiddersWide, token_id \in TokenArgs, edition_id \in EditionArgs,
       deposit \in {contract.mint_storage_fee, contract.mint_storage_fee + 1} :
        /\ BidCount(contract) < MaxBidsWide
        /\ Commit(offer(contract, pred, token_id, edition_id, deposit))

AcceptOfferWide ==
    \E pred \in Users, token_id \in TokenArgs, edition_id \in EditionArgs,
       idx \in BidArgsWide :
        Commit(accept_offer(contract, pred, token_id, edition_id, idx))

CancelOfferWide ==
    \E pred \in Users, token_id \in TokenArgs, edition_id \in EditionArgs,
       idx \in BidArgsWide :
        Commit(cancel_offer(contract, pred, token_id, edition_id, idx))

NextOffer ==
    \/ GenerateGenesisCollection
    \/ AddMinter
    \/ MintToken
    \/ Transfer
    \/ SetPrice
    \/ BurnEdition
    \/ OfferWide
    \/ AcceptOfferWide
    \/ CancelOfferWide

SpecOffer == Init /\ [][NextOffer]_vars

(***************************************************************************)
(* The configuration specification: every owner-only setter, called by the *)
(* owner and by the other accounts, beside minting, listing, purchases and *)
(* transfers.                                                              *)
(***************************************************************************)
ConfigFees == {<<"0">>}
ConfigTradeFees == {2, TRADE_FEE}
ConfigMaxEditions == {0, MAX_EDITIONS_INIT}

SetMintFeeConfig ==
    \E pred \in Accounts, fee \in ConfigFees :
        Commit(set_mint_fee(contract, pred, fee))

SetEditionFee ==
    \E pred \in Accounts, fee \in ConfigFees :
        Commit(set_edition_fee(contract, pred, fee))

SetTradeFeeConfig ==
    \E pred \in Accounts, fee \in ConfigTradeFees :
        Commit(set_trade_fee(contract, pred, fee))

SetMaxEdition ==
    \E pred \in Accounts, value \in ConfigMaxEditions :
        Commit(set_max_edition(contract, pred, value))

RemoveMinterConfig ==
    \E pred \in Accounts, minter \in MinterCandidates :
        Commit(remove_minter(contract, pred, minter))

NextConfig ==
    \/ GenerateGenesisCollection
    \/ AddMinter
    \/ RemoveMinterConfig
    \/ Pause
    \/ Unpause
    \/ SetMintFeeConfig
    \/ SetEditionFee
    \/ SetTradeFeeConfig
    \/ SetMaxEdition
    \/ MintTokenSingle
    \/ Transfer
    \/ SetPrice
    \/ Buy

SpecConfig == Init /\ [][NextConfig]_vars

(***************************************************************************)
(* The withdrawal specification: bids below, at and above the edition      *)
(* storage fee (possible once the mint storage fee is lowered), withdrawn  *)
(* or accepted.                                                            *)
(***************************************************************************)
CancelAmounts ==
    {EDITION_STORAGE_FEE, EDITION_STORAGE_FEE + 1, MINT_STORAGE_FEE + 1}

OfferCancel ==
    \E pred \in BiddersWide, token_id \in TokenArgs, edition_id \in EditionArgs,
       deposit \in CancelAmounts :
        /\ BidCount(contract) < MaxBidsWide
        /\ Commit(offer(contract, pred, token_id, edition_id, deposit))

NextCancel ==
    \/ GenerateGenesisCollection
    \/ AddMinter
    \/ SetMintFee
    \/ MintTokenSingle
    \/ Transfer
    \/ OfferCancel
    \/ AcceptOfferWide
    \/ CancelOfferWide

SpecCancel == Init /\ [][NextCancel]_vars

NextOfferAllowance ==
    \/ GenerateGenesisCollection
    \/ AddMinter
    \/ MintToken
    \/ GrantEditionAllowanceWide
    \/ RemoveEditionAllowance
    \/ Transfer
    \/ Offer
    \/ AcceptOffer

SpecOfferAllowance == Init /\ [][NextOfferAllowance]_vars

(***************************************************************************)
(* The withdrawal-at-any-time specification: bids placed, accepted and     *)
(* withdrawn while editions are listed, sold, transferred and burned and   *)
(* the contract is paused and unpaused.                                    *)
(***************************************************************************)
NextWithdraw ==
    \/ GenerateGenesisCollection
    \/ AddMinter
    \/ Pause
    \/ Unpause
    \/ MintTokenSingle
    \/ Transfer
    \/ SetPrice
    \/ Buy
    \/ BurnEdition
    \/ Offer
    \/ AcceptOffer
    \/ CancelOffer

SpecWithdraw == Init /\ [][NextWithdraw]_vars

(***************************************************************************)
(* Vocabulary of the properties.                                           *)
(***************************************************************************)
\* the global indices handed out so far
Minted == 1 .. contract.total_editions

\* the (token, edition number) pairs that address global index idx
Addresses(s, idx) ==
    {a \in TokenArgs \X EditionArgs :
        Has(s.tokens, a[1]) /\ s.tokens[a[1]].edition_index + a[2] = idx}

\* get_allowances: the members the element vector of the set lists
get_allowances(s, idx) ==
    {s.set_elements[<<s.edition_allowances[idx].prefix, i>>] :
        i \in {j \in 0 .. (s.edition_allowances[idx].len - 1) :
                 Has(s.set_elements, <<s.edition_allowances[idx].prefix, j>>)}}

\* the accounts the transfer_from gate accepts for idx
Allowed(s, idx) ==
    {a \in Accounts : _is_allowed(s, idx, a).ok /\ _is_allowed(s, idx, a).value}

\* the (token, edition number) pairs of the editions minted so far
EditionsOf(s) ==
    {a \in TokenArgs \X EditionArgs :
        Has(s.tokens, a[1]) /\ a[2] \in 1 .. s.tokens[a[1]].editions}

\* the global index of a minted (token, edition number) pair
IndexOf(s, a) == s.tokens[a[1]].edition_index + a[2]

OwnerOf(s, idx) == s.editions[idx].edition_owner

OwnerChanged(s, r, idx) ==
    /\ r.ok
    /\ Has(s.editions, idx)
    /\ Has(r.s.editions, idx)
    /\ OwnerOf(r.s, idx) # OwnerOf(s, idx)

(***************************************************************************)
(* C1.  Every edition ever minted (every global index from 1 to            *)
(* total_editions) has an edition record with one owner account; burning   *)
(* does not remove the record.                                             *)
(***************************************************************************)
C1_EveryMintedEditionHasOwner ==
    \A idx \in Minted :
        /\ Has(contract.editions, idx)
        /\ contract.editions[idx].edition_owner \in Accounts

(***************************************************************************)
(* C2.  Listing invariant: an edition's state is LISTED if and only if the *)
(* marketplace map has an entry keyed by its global index.                 *)
(***************************************************************************)
C2_ListedIffInMarketplace ==
    \A idx \in Minted :
        (contract.edition_states[idx] = LISTED) <=> Has(contract.marketplace, idx)


(***************************************************************************)
(* C3.  Authorization safety.  From every reachable state, a call changes  *)
(* the owner O of an edition only if it is: transfer by O; transfer_from   *)
(* with from = O by a caller holding an escrow grant from O or listed in   *)
(* the edition's allowance set; buy by another account on an edition with  *)
(* a marketplace entry and a deposit of at least the price; accept_offer   *)
(* by O on an unexecuted bid.  A transfer_from by a caller with neither    *)
(* the escrow grant nor an allowance on the edition is rejected.           *)
(***************************************************************************)
PairArgs == TokenArgs \X EditionArgs

C3_OtherCallsKeepOwner(idx) ==
    /\ \A pred \in Users, a \in PairArgs :
         /\ ~OwnerChanged(contract, burn_edition(contract, pred, a[1], a[2]), idx)
         /\ ~OwnerChanged(contract, cancel_sale(contract, pred, a[1], a[2]), idx)
         /\ \A price \in PriceStrings :
              ~OwnerChanged(contract, set_price(contract, pred, a[1], a[2], price), idx)
         /\ \A account \in Users :
              /\ ~OwnerChanged(contract, grant_edition_allowance(
                                   contract, pred, a[1], a[2], account), idx)
              /\ ~OwnerChanged(contract, remove_edition_allowance(
                                   contract, pred, a[1], a[2], account), idx)
         /\ \A deposit \in {contract.mint_storage_fee + 1} :
              ~OwnerChanged(contract, offer(contract, pred, a[1], a[2], deposit), idx)
         /\ \A i \in BidArgs :
              ~OwnerChanged(contract, cancel_offer(contract, pred, a[1], a[2], i), idx)
    /\ \A pred \in Users, escrow \in Users :
         /\ ~OwnerChanged(contract, grant_access(contract, pred, escrow), idx)
         /\ ~OwnerChanged(contract, revoke_access(contract, pred, escrow), idx)

C3_OwnerChangesOnlyWhenAuthorized ==
    \A idx \in DOMAIN contract.editions :
      LET O == OwnerOf(contract, idx) IN
      /\ \A pred \in Users, to \in Users, a \in PairArgs :
           OwnerChanged(contract, transfer(contract, pred, to, a[1], a[2]), idx)
             => pred = O
      /\ \A pred \in Users, from \in Users, to \in Users, a \in PairArgs :
           LET r == transfer_from(contract, pred, from, to, a[1], a[2]) IN
           /\ OwnerChanged(contract, r, idx)
                => /\ from = O
                   /\ \/ check_access(contract, O, pred)
                      \/ pred \in get_allowances(contract, idx)
           /\ ( /\ Has(contract.tokens, a[1])
                /\ contract.tokens[a[1]].edition_index + a[2] = idx
                /\ ~check_access(contract, from, pred)
                /\ pred \notin get_allowances(contract, idx) )
                => ~r.ok
      /\ \A pred \in Users, a \in PairArgs, deposit \in BuyDeposits :
           OwnerChanged(contract, buy(contract, pred, a[1], a[2], deposit), idx)
             => /\ pred # O
                /\ Has(contract.marketplace, idx)
                /\ deposit >= contract.marketplace[idx]
      /\ \A pred \in Users, a \in PairArgs, i \in BidArgs :
           OwnerChanged(contract, accept_offer(contract, pred, a[1], a[2], i), idx)
             => /\ pred = O
                /\ ~contract.offers[gen_token_x_edition(a[1], a[2])][i + 1].executed
      /\ C3_OtherCallsKeepOwner(idx)

(***************************************************************************)
(* C4.  Every successful ownership change of an edition (transfer,         *)
(* transfer_from, buy, accept_offer) leaves the edition with an empty      *)
(* allowance set (no account listed, no account accepted by the            *)
(* transfer_from gate) and with no marketplace entry.                      *)
(***************************************************************************)
C4_Cleared(r, idx) ==
    OwnerChanged(contract, r, idx)
      => /\ get_allowances(r.s, idx) = {}
         /\ Allowed(r.s, idx) = {}
         /\ ~Has(r.s.marketplace, idx)

C4_OwnershipChangeClearsAllowanceAndListing ==
    \A idx \in DOMAIN contract.editions :
      \A pred \in Users, a \in PairArgs :
        /\ \A to \in Users :
             /\ C4_Cleared(transfer(contract, pred, to, a[1], a[2]), idx)
             /\ \A from \in Users :
                  C4_Cleared(transfer_from(contract, pred, from, to, a[1], a[2]), idx)
        /\ \A deposit \in BuyDeposits :
             C4_Cleared(buy(contract, pred, a[1], a[2], deposit), idx)
        /\ \A i \in BidArgs :
             C4_Cleared(accept_offer(contract, pred, a[1], a[2], i), idx)

(***************************************************************************)
(* C5.  An edition allowance is specific to one edition: granting an       *)
(* account on edition E, removing it from E, or clearing E's allowances    *)
(* changes neither the accounts reported as allowed nor the listed         *)
(* allowance set of any other edition.                                     *)
(***************************************************************************)
C5_OthersUntouched(r, idx) ==
    r.ok => \A other \in (DOMAIN contract.edition_allowances) \ {idx} :
               /\ Allowed(r.s, other) = Allowed(contract, other)
               /\ get_allowances(r.s, other) = get_allowances(contract, other)

C5_AllowanceIsPerEdition ==
    /\ \A pred \in Users, account \in Users, a \in EditionsOf(contract) :
           LET idx == IndexOf(contract, a) IN
           /\ C5_OthersUntouched(
                grant_edition_allowance(contract, pred, a[1], a[2], account), idx)
           /\ C5_OthersUntouched(
                remove_edition_allowance(contract, pred, a[1], a[2], account), idx)
    /\ \A idx \in DOMAIN contract.edition_allowances :
         C5_OthersUntouched(_clear_allowance(contract, idx), idx)

(***************************************************************************)
(* C6.  Delist: a cancel_sale by the current owner on a LISTED edition of  *)
(* any token removes the marketplace entry keyed by the edition's global   *)
(* index, so that every buy on that edition is then rejected; a            *)
(* cancel_sale by a non-owner is rejected.                                 *)
(***************************************************************************)
C6_CancelSaleDelists ==
    \A pred \in Users, a \in EditionsOf(contract) :
        LET idx == IndexOf(contract, a)
            r == cancel_sale(contract, pred, a[1], a[2])
        IN
        /\ (Has(contract.editions, idx) /\ OwnerOf(contract, idx) # pred) => ~r.ok
        /\ ( /\ r.ok
             /\ contract.edition_states[idx] = LISTED
             /\ Has(contract.marketplace, idx) )
             => /\ ~Has(r.s.marketplace, idx)
                /\ \A buyer \in Users, deposit \in BuyDeposits :
                     ~buy(r.s, buyer, a[1], a[2], deposit).ok


(***************************************************************************)
(* C7.  An edition whose state is BURNED or LOCKED is frozen: every        *)
(* transfer, transfer_from, buy, accept_offer, set_price, batch_set_price  *)
(* and offer that targets it (through any address of its global index) is  *)
(* rejected, hence changes nothing.                                        *)
(***************************************************************************)
Frozen(s, idx) ==
    Has(s.edition_states, idx) /\ s.edition_states[idx] \in {BURNED, LOCKED}

InList(edition_ids, e) == \E k \in 1 .. Len(edition_ids) : edition_ids[k] = e

C7_BurnedOrLockedIsFrozen ==
    \A idx \in Minted :
      Frozen(contract, idx) =>
        \A a \in Addresses(contract, idx), pred \in Accounts :
          /\ \A to \in Users :
               /\ ~transfer(contract, pred, to, a[1], a[2]).ok
               /\ \A from \in Users :
                    ~transfer_from(contract, pred, from, to, a[1], a[2]).ok
          /\ \A deposit \in BuyDeposits :
               ~buy(contract, pred, a[1], a[2], deposit).ok
          /\ \A i \in BidArgs :
               ~accept_offer(contract, pred, a[1], a[2], i).ok
          /\ \A price \in PriceStrings :
               /\ ~set_price(contract, pred, a[1], a[2], price).ok
               /\ \A edition_ids \in EditionIdLists :
                    InList(edition_ids, a[2])
                      => ~batch_set_price(contract, pred, a[1], edition_ids,
                                          price).ok
          /\ \A deposit \in {contract.mint_storage_fee,
                             contract.mint_storage_fee + 1} :
               ~offer(contract, pred, a[1], a[2], deposit).ok

\* a burned edition that carries an open bid, beside a live edition
C7_Witness ==
    \E idx \in Minted :
      /\ Frozen(contract, idx)
      /\ \E a \in Addresses(contract, idx) :
           /\ Has(contract.offers, gen_token_x_edition(a[1], a[2]))
           /\ \E k \in 1 .. Len(contract.offers[gen_token_x_edition(a[1], a[2])]) :
                ~contract.offers[gen_token_x_edition(a[1], a[2])][k].executed
      /\ \E other \in Minted : Has(contract.editions, other)

(***************************************************************************)
(* C8.  Burn is monotonic: an edition whose state is BURNED is BURNED in   *)
(* the next state of every step, whatever call is made.                    *)
(***************************************************************************)
BurnedEditions(s) ==
    {idx \in DOMAIN s.edition_states : s.edition_states[idx] = BURNED}

C8_BurnedStaysBurned ==
    [][BurnedEditions(contract) \subseteq BurnedEditions(contract')]_vars

\* a burned edition, with a token minted and listed after the burn
C8_Witness ==
    \E idx \in Minted :
      /\ contract.edition_states[idx] = BURNED
      /\ \E later \in Minted :
           /\ later > idx
           /\ contract.edition_states[later] = LISTED
           /\ contract.editions[later].edition_number = 1

(***************************************************************************)
(* C9.  A bid is terminal once executed: a successful accept_offer or      *)
(* cancel_offer on bid i of a key leaves the stored bid executed; an       *)
(* executed bid is executed in the next state of every step; and every     *)
(* accept_offer and cancel_offer on an executed bid is rejected.           *)
(***************************************************************************)
Executed(s, key, i) ==
    Has(s.offers, key) /\ i < Len(s.offers[key]) /\ s.offers[key][i + 1].executed

ExecutedBids(s) ==
    {b \in (DOMAIN s.offers) \X BidArgs : Executed(s, b[1], b[2])}

C9_ClosedByCall ==
    \A pred \in Accounts, a \in PairArgs, i \in BidArgs :
      LET key == gen_token_x_edition(a[1], a[2])
          acc == accept_offer(contract, pred, a[1], a[2], i)
          can == cancel_offer(contract, pred, a[1], a[2], i)
      IN /\ acc.ok => Executed(acc.s, key, i)
         /\ can.ok => Executed(can.s, key, i)
         /\ Executed(contract, key, i) => (~acc.ok /\ ~can.ok)

C9_ExecutedBidIsTerminal ==
    /\ []C9_ClosedByCall
    /\ [][ExecutedBids(contract) \subseteq ExecutedBids(contract')]_vars

\* a bid closed by accept_offer: executed, blanked, the bidder owns the edition
C9_Witness ==
    \E key \in DOMAIN contract.offers :
      /\ Executed(contract, key, 0)
      /\ contract.offers[key][1].bidder = ""
      /\ \E idx \in Minted :
           /\ Has(contract.editions, idx)
           /\ contract.editions[idx].edition_owner \in Bidders


(***************************************************************************)
(* C10.  Settlement split is exact: whenever a buy or an accept_offer      *)
(* succeeds, the payments it dispatches go to the fee receiver, the        *)
(* creator and the seller only, and their amounts sum to the gross amount  *)
(* (the attached deposit of the buy, the amount of the accepted bid).      *)
(***************************************************************************)
RECURSIVE PaymentSum(_)
PaymentSum(payments) ==
    IF payments = <<>> THEN 0
    ELSE payments[1].amount + PaymentSum(Tail(payments))

ExactSplit(r, gross, token_id, seller) ==
    r.ok =>
      /\ PaymentSum(r.promises) = gross
      /\ \A k \in 1 .. Len(r.promises) :
           /\ r.promises[k].amount >= 0
           /\ r.promises[k].to \in
                {contract.fee_receiver,
                 contract.metadata[contract.tokens[token_id].metadata].creator,
                 seller}

C10_SettlementSplitIsExact ==
    \A pred \in Users, a \in PairArgs :
      (Has(contract.tokens, a[1]) /\ Has(contract.editions, IndexOf(contract, a)))
        => LET seller == OwnerOf(contract, IndexOf(contract, a))
               key == gen_token_x_edition(a[1], a[2])
           IN /\ \A deposit \in GrossAmounts :
                   ExactSplit(buy(contract, pred, a[1], a[2], deposit),
                              deposit, a[1], seller)
              /\ \A i \in BidArgs :
                   (Has(contract.offers, key) /\ i < Len(contract.offers[key]))
                     => ExactSplit(accept_offer(contract, pred, a[1], a[2], i),
                                   contract.offers[key][i + 1].amount, a[1], seller)

\* the settlement of the example: gross 1000, divisor 13, royalty 2, sold by
\* an owner who is not the creator
C10_Witness ==
    /\ contract.trade_fee = TRADE_FEE
    /\ \E seller \in Users :
         /\ Has(contract.metadata, 0)
         /\ seller # contract.metadata[0].creator
         /\ contract.metadata[0].royalty = 2
         /\ promises = <<Pay(contract.fee_receiver, 76, "FEE"),
                         Pay(contract.metadata[0].creator, 462, "ROYALTY"),
                         Pay(seller, 462, "SALE")>>


(***************************************************************************)
(* C11.  The split of buy and of accept_offer equals the reference settle  *)
(* function: platformFee = gross / divisor, remainder = gross -            *)
(* platformFee; seller == creator or royalty 0: seller gets the remainder, *)
(* royalty 0; seller # creator and royalty 1: creator gets the remainder,  *)
(* seller 0; seller # creator and royalty > 1: creator gets remainder /    *)
(* royalty, seller the rest.  The seller is the owner before the transfer. *)
(***************************************************************************)
settle(gross, divisor, royalty, seller_is_creator) ==
    LET platformFee == gross \div divisor
        remainder == gross - platformFee
        royaltyFee == IF seller_is_creator \/ royalty = 0 THEN 0
                      ELSE IF royalty = 1 THEN remainder
                      ELSE remainder \div royalty
    IN [platformFee |-> platformFee, royaltyFee |-> royaltyFee,
        sellerProceeds |-> remainder - royaltyFee]

\* the amount a call dispatches to an account for a reason
RECURSIVE PaidFor(_, _, _)
PaidFor(payments, account, reason) ==
    IF payments = <<>> THEN 0
    ELSE (IF payments[1].to = account /\ payments[1].reason = reason
          THEN payments[1].amount ELSE 0)
         + PaidFor(Tail(payments), account, reason)

MatchesSettle(r, gross, token_id, seller) ==
    r.ok =>
      LET md == contract.metadata[contract.tokens[token_id].metadata]
          ref == settle(gross, contract.trade_fee, md.royalty, seller = md.creator)
      IN /\ PaidFor(r.promises, contract.fee_receiver, "FEE") = ref.platformFee
         /\ PaidFor(r.promises, md.creator, "ROYALTY") = ref.royaltyFee
         /\ PaidFor(r.promises, seller, "SALE") = ref.sellerProceeds
         /\ PaymentSum(r.promises)
              = ref.platformFee + ref.royaltyFee + ref.sellerProceeds

C11_SplitEqualsSettle ==
    \A pred \in Users, a \in PairArgs :
      (Has(contract.tokens, a[1]) /\ Has(contract.editions, IndexOf(contract, a)))
        => LET seller == OwnerOf(contract, IndexOf(contract, a))
               key == gen_token_x_edition(a[1], a[2])
           IN /\ \A deposit \in GrossAmounts :
                   MatchesSettle(buy(contract, pred, a[1], a[2], deposit),
                                 deposit, a[1], seller)
              /\ \A i \in BidArgs :
                   (Has(contract.offers, key) /\ i < Len(contract.offers[key]))
                     => MatchesSettle(accept_offer(contract, pred, a[1], a[2], i),
                                      contract.offers[key][i + 1].amount, a[1],
                                      seller)

\* an accepted bid on a royalty-1 token sold by a later owner: the creator
\* was paid the whole remainder, the seller nothing
C11_Witness ==
    /\ Has(contract.metadata, 0)
    /\ contract.metadata[0].royalty = 1
    /\ Executed(contract, gen_token_x_edition(0, 1), 0)
    /\ contract.offers[gen_token_x_edition(0, 1)][1].bidder = ""
    /\ Len(promises) = 2
    /\ promises[2] = Pay(contract.metadata[0].creator, promises[2].amount, "ROYALTY")
    /\ promises[2].amount > 0
    /\ promises[1].reason = "FEE"


(***************************************************************************)
(* C12.  One transfer routine, one effect: for every edition the caller    *)
(* owns, a successful transfer(to, token, edition) yields the same owner,  *)
(* edition state (AVAILABLE), marketplace map and allowance set as         *)
(* _internal_transfer yields from the same state, also when the edition    *)
(* was LISTED before the call.                                             *)
(***************************************************************************)
C12_TransferEqualsInternalTransfer ==
    \A pred \in Users, to \in Users, a \in EditionsOf(contract) :
      LET idx == IndexOf(contract, a)
          direct == transfer(contract, pred, to, a[1], a[2])
          shared == _internal_transfer(contract, pred, to, a[1], a[2], idx)
      IN direct.ok =>
           /\ shared.ok
           /\ direct.s.editions[idx] = shared.s.editions[idx]
           /\ direct.s.edition_states[idx] = AVAILABLE
           /\ direct.s.edition_states[idx] = shared.s.edition_states[idx]
           /\ direct.s.marketplace = shared.s.marketplace
           /\ get_allowances(direct.s, idx) = get_allowances(shared.s, idx)
           /\ Allowed(direct.s, idx) = Allowed(shared.s, idx)


(***************************************************************************)
(* C13.  While the contract is paused no transfer, transfer_from, buy or   *)
(* accept_offer succeeds, and across every step taken in a paused state    *)
(* the owner of every edition is unchanged.                                *)
(***************************************************************************)
C13_PausedRejectsTransfers ==
    contract.paused =>
      \A pred \in Accounts, a \in PairArgs :
        /\ \A to \in Users :
             /\ ~transfer(contract, pred, to, a[1], a[2]).ok
             /\ \A from \in Users :
                  ~transfer_from(contract, pred, from, to, a[1], a[2]).ok
        /\ \A deposit \in BuyDeposits : ~buy(contract, pred, a[1], a[2], deposit).ok
        /\ \A i \in BidArgs : ~accept_offer(contract, pred, a[1], a[2], i).ok

C13_PausedStepKeepsOwners ==
    contract.paused =>
      \A idx \in (DOMAIN contract.editions) \cap (DOMAIN contract'.editions) :
        OwnerOf(contract', idx) = OwnerOf(contract, idx)

Unmutated(w, r) ==
    /\ w.ok = r.ok
    /\ w.ok => w.s = r.s
    /\ ~w.ok => call_outcome(contract, w) = contract

Dirty(w) == ~w.ok /\ w.s # contract

IndexRange(s, token_id) ==
    (s.tokens[token_id].edition_index + 1) ..
        (s.tokens[token_id].edition_index + s.tokens[token_id].editions)

RECURSIVE EditionsMinted(_, _)
EditionsMinted(s, token_ids) ==
    IF token_ids = {} THEN 0
    ELSE LET t == CHOOSE x \in token_ids : TRUE
         IN s.tokens[t].editions + EditionsMinted(s, token_ids \ {t})

C15_Allocated ==
    /\ DOMAIN contract.tokens = 0 .. (contract.current_supply - 1)
    /\ contract.total_editions = EditionsMinted(contract, DOMAIN contract.tokens)
    /\ DOMAIN contract.edition_states = 1 .. contract.total_editions
    /\ \A t \in DOMAIN contract.tokens :
         /\ IndexRange(contract, t) \subseteq 1 .. contract.total_editions
         /\ \A u \in DOMAIN contract.tokens :
              u # t => IndexRange(contract, t) \cap IndexRange(contract, u) = {}
    /\ \A idx \in DOMAIN contract.editions :
         /\ Has(contract.tokens, contract.editions[idx].token_id)
         /\ idx \in IndexRange(contract, contract.editions[idx].token_id)
         /\ contract.editions[idx].edition_number
              = idx - contract.tokens[contract.editions[idx].token_id].edition_index

C15_NeverReassigned ==
    /\ contract'.total_editions >= contract.total_editions
    /\ contract'.current_supply >= contract.current_supply
    /\ \A t \in DOMAIN contract.tokens :
         Has(contract'.tokens, t) /\ contract'.tokens[t] = contract.tokens[t]
    /\ \A idx \in 1 .. contract.total_editions :
         Has(contract'.editions, idx)
           => /\ Has(contract.editions, idx)
              /\ contract'.editions[idx].token_id = contract.editions[idx].token_id
              /\ contract'.editions[idx].edition_number
                   = contract.editions[idx].edition_number

C15_IndicesAppendOnly ==
    /\ []C15_Allocated
    /\ [][C15_NeverReassigned]_vars

\* three tokens, the first with a burned edition, a later one with editions
C15_Witness ==
    /\ contract.current_supply = MaxMintTokens
    /\ \E idx \in IndexRange(contract, 0) : contract.edition_states[idx] = BURNED
    /\ \E t \in DOMAIN contract.tokens :
         /\ t > 0
         /\ \E idx \in IndexRange(contract, t) : Has(contract.editions, idx)


(***************************************************************************)
(* C16.  Mint permission: a mint_token with valid metadata, an existing    *)
(* collection and a sufficient deposit is permitted when the payer is in   *)
(* the global minter whitelist, or, for collection_id # 0, when the payer  *)
(* is in that collection's minter list; a payer who satisfies neither is   *)
(* rejected.                                                               *)
(***************************************************************************)
InMinterList(s, collection_id, account) ==
    \E k \in 1 .. Len(s.collections[collection_id].minters) :
        s.collections[collection_id].minters[k] = account

C16_MintPermission ==
    \A pred \in Users, meta \in CollectionMetadataInputs :
      Has(contract.collections, meta.collection_id) =>
        LET r == mint_token(contract, pred, meta,
                            contract.mint_storage_fee
                              + contract.edition_storage_fee * meta.editions)
            permitted ==
              \/ pred \in contract.minters
              \/ /\ meta.collection_id # 0
                 /\ InMinterList(contract, meta.collection_id, pred)
        IN r.ok <=> permitted


(***************************************************************************)
(* C17.  A successful mint_token with edition count N takes the previous   *)
(* current_supply as token id and creates exactly N editions numbered      *)
(* 1..N, each owned by the payer, AVAILABLE, with an empty allowance set   *)
(* and no marketplace entry, and leaves every edition, listing, allowance  *)
(* and bid minted or made before unchanged; a mint with a deposit below    *)
(* mint_storage_fee + edition_storage_fee * N, or with N above             *)
(* MAX_EDITIONS, is rejected.                                              *)
(***************************************************************************)
MintCounts == (0 .. MaxEditionsPerMint) \cup {MAX_EDITIONS_INIT + 1}

C17_Created(r, pred, meta) ==
    LET id == contract.current_supply
        first == r.s.tokens[id].edition_index
    IN /\ ~Has(contract.tokens, id)
       /\ Has(r.s.tokens, id)
       /\ r.s.current_supply = id + 1
       /\ (DOMAIN r.s.editions) \ (DOMAIN contract.editions)
            = (first + 1) .. (first + meta.editions)
       /\ \A k \in 1 .. meta.editions :
            /\ r.s.editions[first + k]
                 = [edition_owner |-> pred, edition_number |-> k, token_id |-> id]
            /\ r.s.edition_states[first + k] = AVAILABLE
            /\ get_allowances(r.s, first + k) = {}
            /\ Allowed(r.s, first + k) = {}
            /\ ~Has(r.s.marketplace, first + k)

C17_Kept(r) ==
    /\ \A idx \in DOMAIN contract.editions :
         r.s.editions[idx] = contract.editions[idx]
    /\ \A idx \in DOMAIN contract.edition_states :
         r.s.edition_states[idx] = contract.edition_states[idx]
    /\ \A idx \in DOMAIN contract.edition_allowances :
         /\ get_allowances(r.s, idx) = get_allowances(contract, idx)
         /\ Allowed(r.s, idx) = Allowed(contract, idx)
    /\ \A t \in DOMAIN contract.tokens : r.s.tokens[t] = contract.tokens[t]
    /\ r.s.marketplace = contract.marketplace
    /\ r.s.offers = contract.offers
    /\ r.s.account_gives_access = contract.account_gives_access

C17_MintEffects ==
    \A pred \in Users, meta \in MetadataInputs(MintCounts, Royalties) :
      LET fee == contract.mint_storage_fee
                   + contract.edition_storage_fee * meta.editions
      IN /\ ~mint_token(contract, pred, meta, fee - 1).ok
         /\ meta.editions > contract.MAX_EDITIONS
              => ~mint_token(contract, pred, meta, fee).ok
         /\ LET r == mint_token(contract, pred, meta, fee)
            IN r.ok => (C17_Created(r, pred, meta) /\ C17_Kept(r))

\* a second token minted beside a first one that carries a listing, an
\* allowance or a bid
C17_Witness ==
    /\ contract.current_supply = 2
    /\ contract.tokens[1].editions > 0
    /\ \A idx \in IndexRange(contract, 1) :
         Has(contract.editions, idx) /\ contract.edition_states[idx] = AVAILABLE
    /\ \E idx \in IndexRange(contract, 0) :
         /\ Has(contract.marketplace, idx)
         /\ get_allowances(contract, idx) # {}
    /\ contract.offers # EmptyMap


(***************************************************************************)
(* C18.  Mint then sell: for an edition owned by S and listed at price p,  *)
(* a buy by B # S with deposit d >= p while unpaused succeeds; afterwards  *)
(* the owner is B, the edition has no marketplace entry and is AVAILABLE,  *)
(* and a second buy is rejected; when the royalty is 0 or S is the         *)
(* creator, S is paid d - floor(d / trade_fee).                            *)
(***************************************************************************)
C18_Sold(r, a, idx, S, B, d) ==
    LET md == contract.metadata[contract.tokens[a[1]].metadata] IN
    /\ r.ok
    /\ OwnerOf(r.s, idx) = B
    /\ ~Has(r.s.marketplace, idx)
    /\ r.s.edition_states[idx] = AVAILABLE
    /\ \A again \in Users, d2 \in BuyDeposits :
         ~buy(r.s, again, a[1], a[2], d2).ok
    /\ (md.royalty = 0 \/ md.creator = S)
         => PaidFor(r.promises, S, "SALE") = d - (d \div contract.trade_fee)

C18_MintThenSell ==
    \A a \in EditionsOf(contract) :
      LET idx == IndexOf(contract, a) IN
      ( /\ ~contract.paused
        /\ Has(contract.editions, idx)
        /\ contract.edition_states[idx] = LISTED
        /\ Has(contract.marketplace, idx) )
        => \A B \in Users \ {OwnerOf(contract, idx)}, d \in BuyDeposits :
             d >= contract.marketplace[idx]
               => C18_Sold(buy(contract, B, a[1], a[2], d), a, idx,
                           OwnerOf(contract, idx), B, d)


(***************************************************************************)
(* C19.  buy is rejected, before it has written anything (ownership,       *)
(* listing and edition state unchanged, no payment dispatched), when the   *)
(* edition has no marketplace entry, when the attached deposit is below    *)
(* the listed price, or when the buyer is the current owner.               *)
(***************************************************************************)
C19_Rejected(pred, a, d) ==
    /\ ~buy(contract, pred, a[1], a[2], d).ok
    /\ buy_written(contract, pred, a[1], a[2], d) = Written(FALSE, contract)
    /\ call_outcome(contract, buy_written(contract, pred, a[1], a[2], d)) = contract

C19_BuyRejections ==
    \A pred \in Users, a \in EditionsOf(contract), d \in BuyDeposits :
      LET idx == IndexOf(contract, a) IN
      /\ ~Has(contract.marketplace, idx) => C19_Rejected(pred, a, d)
      /\ (Has(contract.marketplace, idx) /\ d < contract.marketplace[idx])
           => C19_Rejected(pred, a, d)
      /\ (Has(contract.editions, idx) /\ OwnerOf(contract, idx) = pred)
           => C19_Rejected(pred, a, d)

\* a listed edition (a deposit below its price, its owner as buyer) beside
\* an edition that is not listed
C19_Witness ==
    /\ ~contract.paused
    /\ \E a \in EditionsOf(contract) :
         /\ Has(contract.marketplace, IndexOf(contract, a))
         /\ Has(contract.editions, IndexOf(contract, a))
         /\ \E d \in BuyDeposits : d < contract.marketplace[IndexOf(contract, a)]
         /\ \E d \in BuyDeposits : d >= contract.marketplace[IndexOf(contract, a)]
    /\ \E a \in EditionsOf(contract) :
         /\ ~Has(contract.marketplace, IndexOf(contract, a))
         /\ Has(contract.editions, IndexOf(contract, a))


(***************************************************************************)
(* C20.  Delegated transfer does not consume escrow: when O has granted    *)
(* escrow to D, a transfer_from(O, X, token, edition) by D on an AVAILABLE *)
(* edition of O while unpaused succeeds; afterwards the owner is X, the    *)
(* edition's allowance set is empty and O's escrow set still contains D,   *)
(* so that D can transfer the further AVAILABLE editions of O.  The escrow *)
(* set of an account changes only through that account's own grant_access  *)
(* and revoke_access.                                                      *)
(***************************************************************************)
AvailableOf(s, O) ==
    {a \in EditionsOf(s) :
        /\ Has(s.editions, IndexOf(s, a))
        /\ OwnerOf(s, IndexOf(s, a)) = O
        /\ s.edition_states[IndexOf(s, a)] = AVAILABLE}

C20_Delegated(r, O, D, X, idx) ==
    /\ r.ok
    /\ OwnerOf(r.s, idx) = X
    /\ get_allowances(r.s, idx) = {}
    /\ check_access(r.s, O, D)
    /\ r.s.account_gives_access = contract.account_gives_access
    /\ \A further \in AvailableOf(r.s, O), Y \in Users :
         transfer_from(r.s, D, O, Y, further[1], further[2]).ok

C20_EscrowOnlyByItsAccount ==
    \A pred \in Users, a \in PairArgs :
      /\ \A account \in Users :
           /\ LET g == grant_access(contract, pred, account) IN
              g.ok => \A other \in (DOMAIN contract.account_gives_access) \ {pred} :
                         g.s.account_gives_access[other]
                           = contract.account_gives_access[other]
           /\ LET v == revoke_access(contract, pred, account) IN
              v.ok => \A other \in (DOMAIN contract.account_gives_access) \ {pred} :
                         v.s.account_gives_access[other]
                           = contract.account_gives_access[other]
           /\ LET t == transfer(contract, pred, account, a[1], a[2]) IN
              t.ok => t.s.account_gives_access = contract.account_gives_access
           /\ LET g == grant_edition_allowance(contract, pred, a[1], a[2], account) IN
              g.ok => g.s.account_gives_access = contract.account_gives_access
      /\ \A d \in BuyDeposits :
           LET b == buy(contract, pred, a[1], a[2], d) IN
           b.ok => b.s.account_gives_access = contract.account_gives_access
      /\ LET u == burn_edition(contract, pred, a[1], a[2]) IN
         u.ok => u.s.account_gives_access = contract.account_gives_access

C20_EscrowNotConsumed ==
    /\ C20_EscrowOnlyByItsAccount
    /\ ~contract.paused =>
         \A O \in Users, D \in Users, X \in Users :
           check_access(contract, O, D) =>
             \A a \in AvailableOf(contract, O) :
               C20_Delegated(transfer_from(contract, D, O, X, a[1], a[2]),
                             O, D, X, IndexOf(contract, a))


(***************************************************************************)
(* C21.  Offer acceptance: when the current owner O of an edition calls    *)
(* accept_offer on an unexecuted bid of bidder B while unpaused, the call  *)
(* succeeds; afterwards the owner is B, the stored bid has executed = true *)
(* with bidder and amount blanked, the edition has no marketplace entry    *)
(* and is AVAILABLE, and the payments are the settlement of the bid's      *)
(* original amount.  An accept_offer by an account that is not the current *)
(* owner is rejected.                                                      *)
(***************************************************************************)
OpenBids(s) ==
    {b \in EditionsOf(s) \X BidArgsWide :
        LET key == gen_token_x_edition(b[1][1], b[1][2]) IN
        /\ Has(s.editions, IndexOf(s, b[1]))
        /\ Has(s.offers, key)
        /\ b[2] < Len(s.offers[key])
        /\ ~s.offers[key][b[2] + 1].executed}

C21_Accepted(r, a, i, O, B, amount) ==
    LET key == gen_token_x_edition(a[1], a[2])
        idx == IndexOf(contract, a)
    IN /\ r.ok
       /\ OwnerOf(r.s, idx) = B
       /\ r.s.offers[key][i + 1] = [bidder |-> "", amount |-> 0, executed |-> TRUE]
       /\ ~Has(r.s.marketplace, idx)
       /\ r.s.edition_states[idx] = AVAILABLE
       /\ MatchesSettle(r, amount, a[1], O)

C21_OfferAcceptance ==
    \A b \in OpenBids(contract) :
      LET a == b[1]
          i == b[2]
          O == OwnerOf(contract, IndexOf(contract, a))
          bid == contract.offers[gen_token_x_edition(a[1], a[2])][i + 1]
      IN /\ ~contract.paused =>
              C21_Accepted(accept_offer(contract, O, a[1], a[2], i),
                           a, i, O, bid.bidder, bid.amount)
         /\ \A pred \in Accounts \ {O} :
              ~accept_offer(contract, pred, a[1], a[2], i).ok


(***************************************************************************)
(* C22.  cancel_offer succeeds only for the bid's own bidder on an         *)
(* unexecuted bid; it refunds amount - edition_storage_fee to the bidder   *)
(* when the amount exceeds edition_storage_fee and nothing otherwise;      *)
(* afterwards the stored bid is executed with its bidder blanked; a cancel *)
(* by any other account is rejected.                                       *)
(***************************************************************************)
C22_Refund(bidder, amount) ==
    IF amount > contract.edition_storage_fee
    THEN <<Pay(bidder, amount - contract.edition_storage_fee, "REFUND")>>
    ELSE <<>>

C22_Cancelled(r, pred, key, i) ==
    /\ Has(contract.offers, key)
    /\ i < Len(contract.offers[key])
    /\ LET bid == contract.offers[key][i + 1] IN
       /\ ~bid.executed
       /\ bid.bidder = pred
       /\ r.promises = C22_Refund(pred, bid.amount)
       /\ r.s.offers[key][i + 1].executed
       /\ r.s.offers[key][i + 1].bidder \notin Accounts

BidsOf(s, key) == IF Has(s.offers, key) THEN s.offers[key] ELSE <<>>

C23_Appended(r, pred, key, deposit) ==
    LET before == BidsOf(contract, key) IN
    /\ r.ok
    /\ Len(r.s.offers[key]) = Len(before) + 1
    /\ r.s.offers[key][Len(before) + 1]
         = [bidder |-> pred, amount |-> deposit, executed |-> FALSE]
    /\ \A k \in 1 .. Len(before) : r.s.offers[key][k] = before[k]
    /\ \A other \in (DOMAIN r.s.offers) \ {key} :
         Has(contract.offers, other) /\ r.s.offers[other] = contract.offers[other]
    /\ r.s = [contract EXCEPT !.offers = r.s.offers]
    /\ r.promises = <<>>

C24_Closed(before, after) ==
    /\ ~before.executed
    /\ after.executed
    /\ after.bidder \notin Accounts
    /\ after.amount \in {0, before.amount}

C24_StepKeepsBids ==
    \A key \in DOMAIN contract.offers :
      /\ Has(contract'.offers, key)
      /\ Len(contract'.offers[key]) >= Len(contract.offers[key])
      /\ \A k \in 1 .. Len(contract.offers[key]) :
           \/ contract'.offers[key][k] = contract.offers[key][k]
           \/ C24_Closed(contract.offers[key][k], contract'.offers[key][k])

C24_OthersUnchanged(r, key, i) ==
    r.ok =>
      /\ DOMAIN r.s.offers = DOMAIN contract.offers
      /\ \A other \in DOMAIN contract.offers :
           /\ Len(r.s.offers[other]) = Len(contract.offers[other])
           /\ \A k \in 1 .. Len(contract.offers[other]) :
                (other # key \/ k # i + 1)
                  => r.s.offers[other][k] = contract.offers[other][k]

C24_CallsKeepOtherBids ==
    \A pred \in Users, a \in PairArgs, i \in BidArgsWide :
      LET key == gen_token_x_edition(a[1], a[2]) IN
      /\ C24_OthersUnchanged(accept_offer(contract, pred, a[1], a[2], i), key, i)
      /\ C24_OthersUnchanged(cancel_offer(contract, pred, a[1], a[2], i), key, i)

isAuthorized(s, owner, caller, idx) ==
    \/ caller = owner
    \/ check_access(s, owner, caller)
    \/ caller \in Allowed(s, idx)

C25_OwnerIsAuthorized ==
    ~contract.paused =>
      \A O \in Users, caller \in Users, X \in Users :
        \A a \in AvailableOf(contract, O) :
          isAuthorized(contract, O, caller, IndexOf(contract, a))
            => LET r == transfer_from(contract, caller, O, X, a[1], a[2]) IN
               r.ok /\ OwnerOf(r.s, IndexOf(contract, a)) = X


(***************************************************************************)
(* C26.  burn_edition succeeds only when the caller is the edition's       *)
(* current owner and the edition is not LOCKED; on success the edition's   *)
(* state is BURNED, its marketplace entry (if it was LISTED) is removed    *)
(* and its allowance set is empty; every other edition, listing and        *)
(* allowance set is unchanged.                                             *)
(***************************************************************************)
C26_Burned(r, pred, idx) ==
    /\ Has(contract.editions, idx)
    /\ OwnerOf(contract, idx) = pred
    /\ contract.edition_states[idx] # LOCKED
    /\ r.s.edition_states[idx] = BURNED
    /\ contract.edition_states[idx] = LISTED => ~Has(r.s.marketplace, idx)
    /\ get_allowances(r.s, idx) = {}
    /\ \A other \in Minted \ {idx} :
         /\ Has(r.s.editions, other) = Has(contract.editions, other)
         /\ Has(contract.editions, other)
              => r.s.editions[other] = contract.editions[other]
         /\ r.s.edition_states[other] = contract.edition_states[other]
         /\ Has(r.s.marketplace, other) = Has(contract.marketplace, other)
         /\ Has(contract.marketplace, other)
              => r.s.marketplace[other] = contract.marketplace[other]
         /\ get_allowances(r.s, other) = get_allowances(contract, other)

C26_BurnEdition ==
    \A pred \in Accounts, a \in PairArgs :
      Has(contract.tokens, a[1])
        => LET r == burn_edition(contract, pred, a[1], a[2]) IN
           r.ok => C26_Burned(r, pred, IndexOf(contract, a))


(***************************************************************************)
(* C27.  Only the current owner of an edition can change its allowance set *)
(* by a grant or a removal: grant_edition_allowance and                    *)
(* remove_edition_allowance are rejected for any other caller, granting an *)
(* already-granted account is rejected, removing a not-granted account is  *)
(* rejected (an account not granted on the edition stays not granted when  *)
(* it is granted on another edition), and a successful grant followed by a *)
(* removal of the same account restores the previous allowance set.        *)
(***************************************************************************)
C27_OwnerOnly(a, idx) ==
    \A pred \in Accounts \ {OwnerOf(contract, idx)}, account \in Accounts :
      /\ ~grant_edition_allowance(contract, pred, a[1], a[2], account).ok
      /\ ~remove_edition_allowance(contract, pred, a[1], a[2], account).ok

C27_GrantedOnce(a, idx, O) ==
    \A account \in Accounts :
      IF account \in Allowed(contract, idx)
      THEN ~grant_edition_allowance(contract, O, a[1], a[2], account).ok
      ELSE ~remove_edition_allowance(contract, O, a[1], a[2], account).ok

C27_NotGrantedElsewhere(a, idx, O) ==
    \A account \in Accounts \ Allowed(contract, idx) :
      \A other \in EditionsOf(contract) \ {a}, pred \in Users :
        LET g == grant_edition_allowance(contract, pred, other[1], other[2],
                                         account)
        IN g.ok => ~remove_edition_allowance(g.s, O, a[1], a[2], account).ok

C27_RoundTrip(a, idx, O) ==
    \A account \in Accounts :
      LET g == grant_edition_allowance(contract, O, a[1], a[2], account) IN
      g.ok =>
        LET v == remove_edition_allowance(g.s, O, a[1], a[2], account) IN
        /\ account \in Allowed(g.s, idx)
        /\ v.ok
        /\ Allowed(v.s, idx) = Allowed(contract, idx)
        /\ get_allowances(v.s, idx) = get_allowances(contract, idx)

C27_AllowanceChangedByOwnerOnly ==
    \A a \in EditionsOf(contract) :
      LET idx == IndexOf(contract, a) IN
      Has(contract.editions, idx) =>
        /\ C27_OwnerOnly(a, idx)
        /\ C27_GrantedOnce(a, idx, OwnerOf(contract, idx))
        /\ C27_NotGrantedElsewhere(a, idx, OwnerOf(contract, idx))
        /\ C27_RoundTrip(a, idx, OwnerOf(contract, idx))


(***************************************************************************)
(* C28.  Collection minter lists are changed by the creator and the change *)
(* takes effect: after the creator's successful add_collection_minter(c,   *)
(* p) the account p is in the stored minter list of c; after the creator's *)
(* successful remove_collection_minter(c, p) the account p is no longer in *)
(* it, so that a later mint_token by p into collection c is rejected; both *)
(* calls are rejected for a non-creator, and a duplicate add or a removal  *)
(* of an absent account is rejected.                                       *)
(***************************************************************************)
C28_MintsInto(s, person, collection_id) ==
    \E meta \in CollectionMetadataInputs :
      /\ meta.collection_id = collection_id
      /\ mint_token(s, person, meta,
                    s.mint_storage_fee + s.edition_storage_fee * meta.editions).ok

C28_CollectionMinterChange ==
    \A pred \in Accounts, c \in DOMAIN contract.collections, person \in Users :
      LET add == add_collection_minter(contract, pred, c, person)
          rem == remove_collection_minter(contract, pred, c, person)
      IN /\ add.ok => InMinterList(add.s, c, person)
         /\ rem.ok => /\ ~InMinterList(rem.s, c, person)
                      /\ c # 0 => ~C28_MintsInto(rem.s, person, c)
         /\ pred # contract.collections[c].creator => (~add.ok /\ ~rem.ok)
         /\ IF InMinterList(contract, c, person) THEN ~add.ok ELSE ~rem.ok


(***************************************************************************)
(* C29.  In every reachable state every stored collection (the genesis     *)
(* collection 0 and every collection made by create_collection) has its    *)
(* creator as a member of its minter list; create_collection requires a    *)
(* whitelisted payer and a sufficient deposit, assigns a fresh collection  *)
(* id that overwrites no existing collection, sets creator = payer and     *)
(* puts the payer first in the minter list.                                *)
(***************************************************************************)
C29_CreatorIsMember ==
    \A c \in DOMAIN contract.collections :
      InMinterList(contract, c, contract.collections[c].creator)

C29_Created(r, pred, deposit) ==
    LET id == r.s.total_collections IN
    /\ pred \in contract.minters
    /\ deposit >= contract.create_collection_fee
    /\ ~Has(contract.collections, id)
    /\ Has(r.s.collections, id)
    /\ \A c \in DOMAIN contract.collections :
         r.s.collections[c] = contract.collections[c]
    /\ r.s.collections[id].creator = pred
    /\ r.s.collections[id].minters[1] = pred

C29_CreateCollection ==
    \A pred \in Users, collection \in CollectionInputs :
      \A deposit \in {contract.create_collection_fee - 1,
                      contract.create_collection_fee} :
        LET r == create_collection(contract, pred, collection, deposit) IN
        r.ok => C29_Created(r, pred, deposit)

C29_CreatorAlwaysMinter ==
    /\ C29_CreatorIsMember
    /\ C29_CreateCollection


(***************************************************************************)
(* C30.  Configuration is owner-only: the mint storage fee, the edition    *)
(* storage fee, the trade fee divisor, the maximum edition count, the      *)
(* pause flag and the global minter whitelist change only in a step whose  *)
(* caller is the contract owner (set_mint_fee, set_edition_fee,            *)
(* set_trade_fee, set_max_edition, pause, unpause,                         *)
(* generate_genesis_collection, add_minter, remove_minter); the same calls *)
(* from any other account are rejected and no other operation changes      *)
(* these values.                                                           *)
(***************************************************************************)
Configuration(s) ==
    [mint_storage_fee |-> s.mint_storage_fee,
     edition_storage_fee |-> s.edition_storage_fee,
     trade_fee |-> s.trade_fee, MAX_EDITIONS |-> s.MAX_EDITIONS,
     paused |-> s.paused, minters |-> s.minters]

\* the results of the nine configuration calls of an account
ConfigurationCalls(s, pred) ==
    {generate_genesis_collection(s, pred), pause(s, pred), unpause(s, pred)}
      \cup {set_mint_fee(s, pred, fee) : fee \in ConfigFees}
      \cup {set_edition_fee(s, pred, fee) : fee \in ConfigFees}
      \cup {set_trade_fee(s, pred, fee) : fee \in ConfigTradeFees}
      \cup {set_max_edition(s, pred, value) : value \in ConfigMaxEditions}
      \cup {add_minter(s, pred, minter) : minter \in Users}
      \cup {remove_minter(s, pred, minter) : minter \in Users}

C30_Keeps(r) == r.ok => Configuration(r.s) = Configuration(contract)

C30_OthersRejected ==
    \A pred \in Accounts \ {contract.owner_id} :
      \A r \in ConfigurationCalls(contract, pred) : ~r.ok

C30_OtherCallsKeep ==
    \A pred \in Accounts :
      /\ \A a \in PairArgs :
           /\ \A account \in Users :
                /\ C30_Keeps(transfer(contract, pred, account, a[1], a[2]))
                /\ \A from \in Users :
                     C30_Keeps(transfer_from(contract, pred, from, account,
                                             a[1], a[2]))
                /\ C30_Keeps(grant_edition_allowance(contract, pred, a[1], a[2],
                                                     account))
                /\ C30_Keeps(remove_edition_allowance(contract, pred, a[1], a[2],
                                                      account))
           /\ C30_Keeps(burn_edition(contract, pred, a[1], a[2]))
           /\ C30_Keeps(cancel_sale(contract, pred, a[1], a[2]))
           /\ \A price \in PriceStrings :
                /\ C30_Keeps(set_price(contract, pred, a[1], a[2], price))
                /\ a[2] = 0 =>
                     \A edition_ids \in EditionIdLists :
                       C30_Keeps(batch_set_price(contract, pred, a[1],
                                                 edition_ids, price))
           /\ \A deposit \in BuyDeposits :
                C30_Keeps(buy(contract, pred, a[1], a[2], deposit))
           /\ C30_Keeps(offer(contract, pred, a[1], a[2],
                              contract.mint_storage_fee + 1))
           /\ \A i \in BidArgs :
                /\ C30_Keeps(accept_offer(contract, pred, a[1], a[2], i))
                /\ C30_Keeps(cancel_offer(contract, pred, a[1], a[2], i))
      /\ \A account \in Users :
           /\ C30_Keeps(grant_access(contract, pred, account))
           /\ C30_Keeps(revoke_access(contract, pred, account))
           /\ \A c \in CollectionArgs :
                /\ C30_Keeps(add_collection_minter(contract, pred, c, account))
                /\ C30_Keeps(remove_collection_minter(contract, pred, c, account))
      /\ \A meta \in CollectionMetadataInputs :
           C30_Keeps(mint_token(contract, pred, meta,
                                contract.mint_storage_fee
                                  + contract.edition_storage_fee * meta.editions))
      /\ \A collection \in CollectionInputs :
           C30_Keeps(create_collection(contract, pred, collection,
                                       contract.create_collection_fee))

C30_ChangedByOwnerCall ==
    Configuration(contract') # Configuration(contract)
      => \E r \in ConfigurationCalls(contract, contract.owner_id) :
           r.ok /\ contract' = r.s

C30_ConfigurationIsOwnerOnly ==
    /\ [](C30_OthersRejected /\ C30_OtherCallsKeep)
    /\ [][C30_ChangedByOwnerCall /\ contract'.owner_id = contract.owner_id]_vars

\* every configured value was changed by the owner after a token was minted
\* and listed
C30_Witness ==
    /\ contract.mint_storage_fee # MINT_STORAGE_FEE
    /\ contract.edition_storage_fee # EDITION_STORAGE_FEE
    /\ contract.trade_fee # TRADE_FEE
    /\ contract.MAX_EDITIONS # MAX_EDITIONS_INIT
    /\ contract.paused
    /\ contract.minters = {}
    /\ contract.marketplace # EmptyMap


(***************************************************************************)
(* C31.  batch_set_price(token, ids, price) by a caller who owns every     *)
(* edition of the list has the same effect as calling set_price(token, id, *)
(* price) for each id in turn, each edition being LISTED at that price;    *)
(* if the caller does not own one of the editions the whole call is        *)
(* rejected and none of the editions is listed; an empty id list is        *)
(* rejected.                                                               *)
(***************************************************************************)
\* set_price for each id in turn, from position i on
RECURSIVE set_price_in_turn(_, _, _, _, _, _)
set_price_in_turn(s, pred, token_id, edition_ids, price, i) ==
    IF i > Len(edition_ids) THEN Ok(s, <<>>)
    ELSE LET r == set_price(s, pred, token_id, edition_ids[i], price) IN
         IF ~r.ok THEN Panic
         ELSE set_price_in_turn(r.s, pred, token_id, edition_ids, price, i + 1)

OwnsAll(s, pred, token_id, edition_ids) ==
    \A k \in 1 .. Len(edition_ids) :
      only_token_owner(s, pred, token_id, edition_ids[k])

C31_ListedAt(r, token_id, edition_ids, price) ==
    \A k \in 1 .. Len(edition_ids) :
      LET idx == contract.tokens[token_id].edition_index + edition_ids[k] IN
      /\ r.s.edition_states[idx] = LISTED
      /\ Has(r.s.marketplace, idx)
      /\ r.s.marketplace[idx] = u128_from_str(price).value

C31_BatchEqualsSetPrices ==
    \A pred \in Users, token_id \in TokenArgs, edition_ids \in EditionIdLists,
       price \in PriceStrings :
      LET b == batch_set_price(contract, pred, token_id, edition_ids, price)
          w == batch_set_price_written(contract, pred, token_id, edition_ids,
                                       price)
          each == set_price_in_turn(contract, pred, token_id, edition_ids,
                                    price, 1)
      IN IF edition_ids = <<>> THEN ~b.ok
         ELSE IF OwnsAll(contract, pred, token_id, edition_ids)
         THEN /\ b.ok = each.ok
              /\ b.ok = u128_from_str(price).ok
              /\ b.ok => /\ b.s = each.s
                         /\ C31_ListedAt(b, token_id, edition_ids, price)
         ELSE /\ ~b.ok
              /\ ~w.ok
              /\ call_outcome(contract, w) = contract

\* both editions of a token are listed at the price of the batch, by the
\* owner of both
C31_Witness ==
    /\ Has(contract.tokens, 0)
    /\ contract.tokens[0].editions = 2
    /\ batch_set_price(contract, "alice", 0, <<1, 2>>, <<"5", "0", "0">>).ok
    /\ contract.edition_states[1] = LISTED
    /\ contract.edition_states[2] = LISTED
    /\ Has(contract.marketplace, 1) /\ contract.marketplace[1] = 500
    /\ Has(contract.marketplace, 2) /\ contract.marketplace[2] = 500


(***************************************************************************)
(* C32.  cancel_sale touches only its target: a cancel_sale(token,         *)
(* edition) call never removes or changes the marketplace entry or the     *)
(* state of any edition other than the one with global index               *)
(* token.edition_index + edition, in particular not the listing of an      *)
(* edition of another token whose global index equals the given edition    *)
(* number.                                                                 *)
(***************************************************************************)
C32_OthersKept(r, idx) ==
    \A other \in Minted \ {idx} :
      /\ Has(r.s.marketplace, other) = Has(contract.marketplace, other)
      /\ Has(contract.marketplace, other)
           => r.s.marketplace[other] = contract.marketplace[other]
      /\ r.s.edition_states[other] = contract.edition_states[other]

C32_CancelSaleTouchesTargetOnly ==
    \A pred \in Users, a \in PairArgs :
      LET r == cancel_sale(contract, pred, a[1], a[2]) IN
      r.ok => C32_OthersKept(r, IndexOf(contract, a))


(***************************************************************************)
(* C33.  Addressing by (token id, edition number) is sound: every          *)
(* successful set_price, batch_set_price, cancel_sale, burn_edition,       *)
(* grant_edition_allowance, remove_edition_allowance, transfer,            *)
(* transfer_from, buy, offer and accept_offer given (token, n) acts on an  *)
(* edition whose record has token_id = token and edition_number = n; a     *)
(* call with n outside 1 .. token.editions is rejected.                    *)
(***************************************************************************)
\* the record the call given (token, n) = a acts on is the one of a
C33_Sound(a) ==
    /\ Has(contract.tokens, a[1])
    /\ a[2] \in 1 .. contract.tokens[a[1]].editions
    /\ Has(contract.editions, IndexOf(contract, a))
    /\ contract.editions[IndexOf(contract, a)].token_id = a[1]
    /\ contract.editions[IndexOf(contract, a)].edition_number = a[2]

C33_ListingCalls(pred, a) ==
    /\ \A price \in PriceStrings :
         /\ set_price(contract, pred, a[1], a[2], price).ok => C33_Sound(a)
         /\ \A edition_ids \in EditionIdLists :
              batch_set_price(contract, pred, a[1], edition_ids, price).ok
                => \A i \in 1 .. Len(edition_ids) :
                      C33_Sound(<<a[1], edition_ids[i]>>)
    /\ cancel_sale(contract, pred, a[1], a[2]).ok => C33_Sound(a)
    /\ burn_edition(contract, pred, a[1], a[2]).ok => C33_Sound(a)

C33_OwnershipCalls(pred, a) ==
    /\ \A account \in Users :
         /\ grant_edition_allowance(contract, pred, a[1], a[2], account).ok
              => C33_Sound(a)
         /\ remove_edition_allowance(contract, pred, a[1], a[2], account).ok
              => C33_Sound(a)
         /\ transfer(contract, pred, account, a[1], a[2]).ok => C33_Sound(a)
         /\ \A from \in Users :
              transfer_from(contract, pred, from, account, a[1], a[2]).ok
                => C33_Sound(a)

C33_TradeCalls(pred, a) ==
    /\ \A deposit \in BuyDeposits :
         buy(contract, pred, a[1], a[2], deposit).ok => C33_Sound(a)
    /\ \A deposit \in {contract.mint_storage_fee + 1} :
         offer(contract, pred, a[1], a[2], deposit).ok => C33_Sound(a)
    /\ \A idx \in BidArgs :
         accept_offer(contract, pred, a[1], a[2], idx).ok => C33_Sound(a)

C33_AddressingSound ==
    \A pred \in Users, a \in PairArgs :
      /\ C33_ListingCalls(pred, a)
      /\ C33_OwnershipCalls(pred, a)
      /\ C33_TradeCalls(pred, a)


(***************************************************************************)
(* C34.  No self-dealing at acceptance: a successful accept_offer never    *)
(* accepts a bid whose bidder is the accepting owner (it never transfers   *)
(* an edition from an account to itself), also when the bidder became the  *)
(* owner after placing the bid.                                            *)
(***************************************************************************)
C34_NoSelfDealingAtAcceptance ==
    \A pred \in Users, a \in PairArgs, idx \in BidArgs :
      accept_offer(contract, pred, a[1], a[2], idx).ok
        => contract.offers[gen_token_x_edition(a[1], a[2])][idx + 1].bidder # pred


(***************************************************************************)
(* C35.  Each bid pays out at most once: the value dispatched on account   *)
(* of one bid (the settlement payments of its acceptance, or the refund of *)
(* its cancellation) never exceeds the amount deposited with that bid, and *)
(* a bid is never both accepted and refunded nor refunded twice.           *)
(***************************************************************************)
\* no accept_offer and no cancel_offer on bid i of key succeeds in state s
C35_Closed(s, a, i) ==
    \A q \in Accounts :
      /\ ~accept_offer(s, q, a[1], a[2], i).ok
      /\ ~cancel_offer(s, q, a[1], a[2], i).ok

\* the call r on a bid of the given amount dispatches at most the amount and
\* leaves the bid closed
C35_PaidOnce(r, a, i, amount) ==
    r.ok =>
      /\ PaymentSum(r.promises) <= amount
      /\ \A k \in 1 .. Len(r.promises) : r.promises[k].amount >= 0
      /\ Executed(r.s, gen_token_x_edition(a[1], a[2]), i)
      /\ C35_Closed(r.s, a, i)

C35_PaysWithinDeposit ==
    \A a \in PairArgs, i \in BidArgsWide :
      LET key == gen_token_x_edition(a[1], a[2]) IN
      (Has(contract.offers, key) /\ i < Len(contract.offers[key])) =>
        LET bid == contract.offers[key][i + 1] IN
        /\ bid.executed => C35_Closed(contract, a, i)
        /\ \A pred \in Accounts :
             /\ C35_PaidOnce(accept_offer(contract, pred, a[1], a[2], i),
                             a, i, bid.amount)
             /\ C35_PaidOnce(cancel_offer(contract, pred, a[1], a[2], i),
                             a, i, bid.amount)

\* the amount a bid was deposited with is the amount it holds while open,
\* and a closed bid stays closed
C35_BidsKept ==
    \A key \in DOMAIN contract.offers :
      /\ Has(contract'.offers, key)
      /\ Len(contract'.offers[key]) >= Len(contract.offers[key])
      /\ \A k \in 1 .. Len(contract.offers[key]) :
           /\ contract.offers[key][k].executed => contract'.offers[key][k].executed
           /\ ~contract'.offers[key][k].executed
                => contract'.offers[key][k] = contract.offers[key][k]

C35_Deposited ==
    \A pred \in BiddersWide, a \in PairArgs, deposit \in CancelAmounts :
      LET r == offer(contract, pred, a[1], a[2], deposit)
          key == gen_token_x_edition(a[1], a[2])
      IN r.ok => r.s.offers[key][Len(r.s.offers[key])].amount = deposit

C35_BidPaysAtMostOnce ==
    /\ [](C35_PaysWithinDeposit /\ C35_Deposited)
    /\ [][C35_BidsKept]_vars

\* of two bids on one edition, one was accepted and the other withdrawn
\* with a refund
C35_Witness ==
    \E key \in DOMAIN contract.offers :
      /\ Len(contract.offers[key]) = 2
      /\ \E k \in 1 .. 2 :
           /\ contract.offers[key][k] = [bidder |-> "", executed |-> TRUE,
                                         amount |-> 0]
           /\ contract.offers[key][3 - k] = [bidder |-> "::", executed |-> TRUE,
                                             amount |-> MINT_STORAGE_FEE + 1]
      /\ Len(promises) = 1
      /\ promises[1].amount = MINT_STORAGE_FEE + 1 - EDITION_STORAGE_FEE


(***************************************************************************)
(* C36.  A bidder can always withdraw an open bid: in every reachable      *)
(* state, for every stored bid with executed = false, cancel_offer called  *)
(* by that bid's bidder succeeds, also while the contract is paused and    *)
(* after the edition has been transferred, sold, listed or burned.         *)
(***************************************************************************)
C36_OpenBidCanBeWithdrawn ==
    \A a \in PairArgs, i \in BidArgs :
      LET key == gen_token_x_edition(a[1], a[2]) IN
      (/\ Has(contract.offers, key)
       /\ i < Len(contract.offers[key])
       /\ ~contract.offers[key][i + 1].executed)
        => cancel_offer(contract, contract.offers[key][i + 1].bidder,
                        a[1], a[2], i).ok

\* the last call withdrew, with its refund, a bid on an edition that was
\* burned before, while the contract was paused
C36_Witness ==
    /\ contract.paused
    /\ \E a \in EditionsOf(contract) :
         LET key == gen_token_x_edition(a[1], a[2]) IN
         /\ contract.edition_states[IndexOf(contract, a)] = BURNED
         /\ ~Has(contract.editions, IndexOf(contract, a))
         /\ Has(contract.offers, key)
         /\ contract.offers[key][1].bidder = "::"
         /\ contract.offers[key][1].executed
    /\ Len(promises) = 1
    /\ promises[1].reason = "REFUND"


(***************************************************************************)
(* C37.  No stale listing is purchasable: in every reachable state, every  *)
(* marketplace entry belongs to an edition whose state is LISTED and whose *)
(* price was set by its current owner after that owner acquired it, so buy *)
(* never sells an edition at a price set by a previous owner and never     *)
(* sells a burned edition.                                                 *)
(***************************************************************************)
\* every marketplace entry is the entry of a minted, unburned, LISTED edition
C37_EntriesAreListed ==
    \A idx \in DOMAIN contract.marketplace :
      /\ idx \in Minted
      /\ Has(contract.editions, idx)
      /\ contract.edition_states[idx] = LISTED

\* the entry of idx in state s is the entry it had in the state before, of
\* the same owner
C37_Carried(s, idx) ==
    /\ Has(contract.marketplace, idx)
    /\ s.marketplace[idx] = contract.marketplace[idx]
    /\ Has(contract.editions, idx)
    /\ Has(s.editions, idx)
    /\ OwnerOf(s, idx) = OwnerOf(contract, idx)

\* the entry of idx in state s was written by a call of pred, the owner of
\* idx before and after the call
C37_SetByOwner(s, pred, idx) ==
    /\ Has(contract.editions, idx)
    /\ Has(s.editions, idx)
    /\ OwnerOf(contract, idx) = pred
    /\ OwnerOf(s, idx) = pred

\* after the call r of pred, every entry is carried over or was set by pred
C37_Fresh(r, pred) ==
    r.ok => \A idx \in DOMAIN r.s.marketplace :
               C37_Carried(r.s, idx) \/ C37_SetByOwner(r.s, pred, idx)

\* a call that is no listing call leaves carried entries only
C37_OnlyCarried(r) ==
    r.ok => \A idx \in DOMAIN r.s.marketplace : C37_Carried(r.s, idx)

C37_ListingCalls(pred, a) ==
    /\ \A price \in PriceStrings :
         /\ C37_Fresh(set_price(contract, pred, a[1], a[2], price), pred)
         /\ a[2] = 0 =>
              \A edition_ids \in EditionIdLists :
                C37_Fresh(batch_set_price(contract, pred, a[1], edition_ids,
                                          price), pred)
    /\ C37_OnlyCarried(cancel_sale(contract, pred, a[1], a[2]))
    /\ C37_OnlyCarried(burn_edition(contract, pred, a[1], a[2]))

C37_OwnershipCalls(pred, a) ==
    \A to \in Users :
      /\ C37_OnlyCarried(transfer(contract, pred, to, a[1], a[2]))
      /\ \A from \in Users :
           C37_OnlyCarried(transfer_from(contract, pred, from, to, a[1], a[2]))

C37_TradeCalls(pred, a) ==
    /\ \A deposit \in BuyDeposits :
         LET r == buy(contract, pred, a[1], a[2], deposit) IN
         /\ C37_OnlyCarried(r)
         /\ r.ok => /\ contract.edition_states[IndexOf(contract, a)] = LISTED
                    /\ Has(contract.marketplace, IndexOf(contract, a))
                    /\ ~Has(r.s.marketplace, IndexOf(contract, a))
    /\ \A idx \in BidArgs :
         C37_OnlyCarried(accept_offer(contract, pred, a[1], a[2], idx))

\* a step that changes the owner of an edition, or removes its record,
\* leaves it without an entry
C37_OwnerChangeDelists ==
    \A idx \in DOMAIN contract'.marketplace :
      /\ Has(contract.editions, idx)
      /\ Has(contract'.editions, idx)
      /\ OwnerOf(contract', idx) = OwnerOf(contract, idx)

C37_NoStaleListing ==
    /\ [](/\ C37_EntriesAreListed
          /\ \A pred \in Users, a \in PairArgs :
               /\ C37_ListingCalls(pred, a)
               /\ C37_OwnershipCalls(pred, a)
               /\ C37_TradeCalls(pred, a))
    /\ [][C37_OwnerChangeDelists]_vars

\* the only edition was listed by an account that acquired it from its
\* minter and was bought from that account in the last call
C37_Witness ==
    \E idx \in Minted :
      /\ Has(contract.editions, idx)
      /\ OwnerOf(contract, idx) = "carol"
      /\ ~Has(contract.marketplace, idx)
      /\ contract.edition_states[idx] = AVAILABLE
      /\ contract.total_editions = 1
      /\ PaidFor(promises, "bob", "SALE") > 0

====
